---- MODULE Spec2Model ----
(***************************************************************************)
(* Line-reversal control protocol server of p07 (src/p07/src/main.rs):     *)
(* the receive loop of main, SessionState::add, and the per-session        *)
(* sender/retransmission task spawned on CONNECT.                          *)
(***************************************************************************)
EXTENDS Integers, Sequences, FiniteSets, TLC

\* ---------------------------------------------------------------- bounds
\* longest inbound stream a session accumulates in the model
MaxData == 2
\* longest payload of a received DATA frame in the model
MaxPayload == 2
\* longest line a peer has sent in the runs of the sender task alone
MaxLine == 1024
\* longest cipher spec given to Cipher::new
MaxSpec == 4
\* longest message given to Cipher::encode
MaxMsg == 2
\* longest body (what follows the prefix) of a wire string given to parse
MaxBody == 5
\* longest payload of a frame value given to serialize
MaxFramePayload == 3

\* ------------------------------------------------------ program constants
\* b'\n'
NL == 10
\* data.chunks(512)
ChunkSize == 512

\* the inbound byte alphabet: the newline and one other byte
Bytes == {NL, 120}
Ids == {1}
Addrs == {"peerA", "peerB"}
Payloads == UNION {[1..n -> Bytes] : n \in 0..MaxPayload}
Positions == 0..(MaxData + 1)

\* ------------------------------------------------------------ enum Message
Connect(session) == [kind |-> "connect", session |-> session]
Data(session, pos, data) ==
    [kind |-> "data", session |-> session, pos |-> pos, data |-> data]
Ack(session, len) == [kind |-> "ack", session |-> session, len |-> len]
Close(session) == [kind |-> "close", session |-> session]

\* one socket.send_to(msg, addr) call
Datagram(msg, addr) == [msg |-> msg, to |-> addr]

VARIABLES
    sessions,   \* the registry: session id -> SessionState (HashMap<u64, SessionState>)
    chan,       \* session id -> contents of SessionState.ch (unbounded channel)
    tasks,      \* session id -> the spawned sender/retransmission task
    alive,      \* FALSE once main has returned an error (a `?` on a failed send_to)
    out,        \* the send_to calls of the last step, in order
    handed,     \* the arguments of the SessionState::add calls of the last step
    last,       \* the operation of the last step
    hist,       \* per session: how often each inbound offset was handed to add,
                \* how often it was emitted into the channel, positions dropped by ACK
    call,       \* the pure function under examination (Message::parse / serialize,
                \* Cipher): its input and what it returned; idle in the server runs
    mutex,      \* the tokio Mutex around the registry: its holder and its FIFO of waiters
    actor,      \* where the receive loop and each sender task stand relative to the mutex
    peer,       \* session id -> the byte stream the peer of that session is sending
    server,     \* p09: the JobServer (ready, running, waiters)
    clients,    \* p09: client -> its ClientHandler (position, in_progress, oneshot receiver)
    NEXT_ID,    \* p09: the static AtomicU64 of next_id
    holder      \* p09: job id -> the client the job was last handed to and that has
                \* neither aborted nor seen it deleted

vars == <<sessions, chan, tasks, alive, out, handed, last, hist, call,
          mutex, actor, peer, server, clients, NEXT_ID, holder>>

\* the variables of the line-reversal server, and those of the job server
p07vars == <<sessions, chan, tasks, alive, out, handed, last, hist>>
p09vars == <<server, clients, NEXT_ID, holder>>
\* what a step of the atomic view of the line-reversal server leaves alone
aside == <<call, mutex, actor, peer, p09vars>>

\* no pure function is under examination
Idle == [fn |-> "none"]

\* Mutex::new(..): nobody holds it (owner is <<>>, or <<a>> when a holds it),
\* nobody waits
NoMutex == [owner |-> <<>>, queue |-> <<>>]

\* JobServer::default()
NoServer == [ready |-> <<>>, running |-> <<>>, waiters |-> <<>>]

\* ------------------------------------- Message::parse / Message::serialize
\* b'/'
Slash == 47
\* b'\\'
Backslash == 92
\* '+', accepted by u64::from_str in front of the digits
Plus == 43
\* '0'
Zero == 48

\* b"/connect/"
PConnect == <<47, 99, 111, 110, 110, 101, 99, 116, 47>>
\* b"/ack/"
PAck == <<47, 97, 99, 107, 47>>
\* b"/close/"
PClose == <<47, 99, 108, 111, 115, 101, 47>>
\* b"/data/"
PData == <<47, 100, 97, 116, 97, 47>>

\* Ok(v) / Err(_) of a Result, and a panic of the call
Ok(v) == [res |-> "ok", val |-> v]
Err == [res |-> "err"]
Panic == [res |-> "panic"]

\* b.strip_prefix(p).is_some()
HasPrefix(b, p) == Len(b) >= Len(p) /\ SubSeq(b, 1, Len(p)) = p

\* iter().position(|b| *b == c): the 1-based index of the first c, 0 for None
Position(s, c) ==
    IF \E i \in 1..Len(s) : s[i] = c
    THEN CHOOSE i \in 1..Len(s) : s[i] = c /\ \A j \in 1..(i - 1) : s[j] # c
    ELSE 0

RECURSIVE SplitBy(_, _)
\* str::split(c)
SplitBy(s, c) ==
    IF Position(s, c) = 0
    THEN <<s>>
    ELSE <<SubSeq(s, 1, Position(s, c) - 1)>> \o
         SplitBy(SubSeq(s, Position(s, c) + 1, Len(s)), c)

RECURSIVE ReplaceFrom(_, _, _, _, _)
\* the scan of replace from index i, for at most k steps: at a match of pat
\* the replacement is put out and the scan goes on behind the match, else the
\* byte is copied; gives the output and the index the scan has reached
ReplaceFrom(s, pat, rep, i, k) ==
    IF k = 0 \/ i > Len(s) THEN [out |-> <<>>, next |-> i]
    ELSE IF i + Len(pat) - 1 <= Len(s) /\ SubSeq(s, i, i + Len(pat) - 1) = pat
    THEN LET r == ReplaceFrom(s, pat, rep, i + Len(pat), k - 1)
         IN  [out |-> rep \o r.out, next |-> r.next]
    ELSE LET r == ReplaceFrom(s, pat, rep, i + 1, k - 1)
         IN  [out |-> <<s[i]>> \o r.out, next |-> r.next]

RECURSIVE ReplaceAll(_, _, _, _)
\* the scan from index i to the end, 32 steps at a time
ReplaceAll(s, pat, rep, i) ==
    IF i > Len(s) THEN <<>>
    ELSE LET r == ReplaceFrom(s, pat, rep, i, 32)
         IN  r.out \o ReplaceAll(s, pat, rep, r.next)

\* bstr ByteSlice::replace(pat, rep): the leftmost non-overlapping matches of
\* the non-empty pat, left to right
Replace(s, pat, rep) == ReplaceAll(s, pat, rep, 1)

\* slice.contains(&c)
Contains(s, c) == \E i \in 1..Len(s) : s[i] = c

\* std::str::from_utf8(s).is_ok(), for byte strings whose only bytes above 127
\* are 0xFF (which no UTF-8 sequence holds): valid exactly when all-ASCII
Utf8Valid(s) == \A i \in 1..Len(s) : s[i] < 128

RECURSIVE DecVal(_)
\* the number a string of decimal digits denotes
DecVal(d) ==
    IF d = <<>> THEN 0
    ELSE DecVal(SubSeq(d, 1, Len(d) - 1)) * 10 + (d[Len(d)] - Zero)

\* std::str::from_utf8(s)?.parse::<u64>()?: an optional '+', then at least one
\* decimal digit (strings long enough to overflow u64 are beyond the model)
ParseU64(s) ==
    LET d == IF s # <<>> /\ s[1] = Plus THEN Tail(s) ELSE s
    IN  IF \/ ~Utf8Valid(s)
           \/ d = <<>>
           \/ \E i \in 1..Len(d) : d[i] \notin Zero..(Zero + 9)
        THEN Err
        ELSE Ok(DecVal(d))

RECURSIVE FormatU64(_)
\* format!("{n}") of a u64
FormatU64(n) ==
    IF n < 10 THEN <<Zero + n>>
    ELSE FormatU64(n \div 10) \o <<Zero + (n % 10)>>

\* (mutant) the validity test looks for a leftover '\\' only
PayloadValid_NoSlash(data) ==
    LET d1 == Replace(data, <<Backslash, Backslash>>, <<>>)
        d2 == Replace(d1, <<Backslash, Slash>>, <<>>)
    IN  ~Contains(d2, Backslash)

\* the validity test of the data branch: both escape pairs removed, no '\\' or '/' left
PayloadValid(data) ==
    LET d1 == Replace(data, <<Backslash, Backslash>>, <<>>)
        d2 == Replace(d1, <<Backslash, Slash>>, <<>>)
    IN  ~(Contains(d2, Backslash) \/ Contains(d2, Slash))

\* data.replace("\\\\", "\\") then .replace("\\/", "/")
Unescape(data) ==
    Replace(Replace(data, <<Backslash, Backslash>>, <<Backslash>>),
            <<Backslash, Slash>>, <<Slash>>)

\* data.replace("\\", "\\\\") then .replace("/", "\\/")
Escape(data) ==
    Replace(Replace(data, <<Backslash>>, <<Backslash, Backslash>>),
            <<Slash>>, <<Backslash, Slash>>)

\* the payload decoder of the data branch: if !valid { bail } else unescape
DecodePayload(data) ==
    IF ~PayloadValid(data) THEN Err ELSE Ok(Unescape(data))

\* the connect and close branches: one number between the prefix and the last '/'
ParseOne(s) ==
    IF Len(s) = 0 THEN Err
    ELSE ParseU64(SubSeq(s, 1, Len(s) - 1))

\* the ack branch: split('/'), the first two pieces, the others never looked at
ParseAck(s) ==
    IF Len(s) = 0 THEN Err
    ELSE LET parts == SplitBy(SubSeq(s, 1, Len(s) - 1), Slash)
             session == ParseU64(parts[1])
         IN  IF ~Utf8Valid(s) \/ session.res # "ok" \/ Len(parts) < 2 THEN Err
             ELSE LET len == ParseU64(parts[2])
                  IN  IF len.res # "ok" THEN Err
                      ELSE Ok(Ack(session.val, len.val))

\* the data branch: session up to the first '/', pos up to the second, then
\* &s[..s.len() - 1], which panics when nothing follows the second '/'
ParseData(s) ==
    LET slash1 == Position(s, Slash)
    IN  IF slash1 = 0 THEN Err
        ELSE
        LET session == ParseU64(SubSeq(s, 1, slash1 - 1))
            s2 == SubSeq(s, slash1 + 1, Len(s))
            slash2 == Position(s2, Slash)
        IN  IF session.res # "ok" \/ slash2 = 0 THEN Err
            ELSE
            LET pos == ParseU64(SubSeq(s2, 1, slash2 - 1))
                s3 == SubSeq(s2, slash2 + 1, Len(s2))
            IN  IF pos.res # "ok" THEN Err
                ELSE IF Len(s3) = 0 THEN Panic
                ELSE LET data == DecodePayload(SubSeq(s3, 1, Len(s3) - 1))
                     IN  IF data.res # "ok" THEN Err
                         ELSE Ok(Data(session.val, pos.val, data.val))

\* Message::parse
Parse(b) ==
    IF b = <<>> \/ b[Len(b)] # Slash THEN Err
    ELSE IF HasPrefix(b, PConnect)
    THEN LET session == ParseOne(SubSeq(b, Len(PConnect) + 1, Len(b)))
         IN  IF session.res # "ok" THEN Err ELSE Ok(Connect(session.val))
    ELSE IF HasPrefix(b, PAck)
    THEN ParseAck(SubSeq(b, Len(PAck) + 1, Len(b)))
    ELSE IF HasPrefix(b, PClose)
    THEN LET session == ParseOne(SubSeq(b, Len(PClose) + 1, Len(b)))
         IN  IF session.res # "ok" THEN Err ELSE Ok(Close(session.val))
    ELSE IF HasPrefix(b, PData)
    THEN ParseData(SubSeq(b, Len(PData) + 1, Len(b)))
    ELSE Err

\* Message::serialize
Serialize(msg) ==
    CASE msg.kind = "connect" -> Ok(PConnect \o FormatU64(msg.session) \o <<Slash>>)
      [] msg.kind = "ack" ->
            Ok(PAck \o FormatU64(msg.session) \o <<Slash>> \o FormatU64(msg.len) \o <<Slash>>)
      [] msg.kind = "close" -> Ok(PClose \o FormatU64(msg.session) \o <<Slash>>)
      [] msg.kind = "data" ->
            IF ~Utf8Valid(Escape(msg.data)) THEN Err
            ELSE Ok(PData \o FormatU64(msg.session) \o <<Slash>> \o
                    FormatU64(msg.pos) \o <<Slash>> \o Escape(msg.data) \o <<Slash>>)

\* ---------------------------------------------- Cipher (src/p08/src/cipher.rs)
\* bit k of the byte b
Bit(b, k) == (b \div (2 ^ k)) % 2

\* u8::reverse_bits
ReverseBits(b) ==
    Bit(b, 0) * 128 + Bit(b, 1) * 64 + Bit(b, 2) * 32 + Bit(b, 3) * 16 +
    Bit(b, 4) * 8 + Bit(b, 5) * 4 + Bit(b, 6) * 2 + Bit(b, 7)

\* b ^ n on u8
Xor(b, n) ==
    ((Bit(b, 0) + Bit(n, 0)) % 2) + ((Bit(b, 1) + Bit(n, 1)) % 2) * 2 +
    ((Bit(b, 2) + Bit(n, 2)) % 2) * 4 + ((Bit(b, 3) + Bit(n, 3)) % 2) * 8 +
    ((Bit(b, 4) + Bit(n, 4)) % 2) * 16 + ((Bit(b, 5) + Bit(n, 5)) % 2) * 32 +
    ((Bit(b, 6) + Bit(n, 6)) % 2) * 64 + ((Bit(b, 7) + Bit(n, 7)) % 2) * 128

\* a % m on i64: the remainder has the sign of a
Rem(a, m) == IF a >= 0 THEN a % m ELSE 0 - ((0 - a) % m)

\* (mutant) the cast saturates: a negative value becomes 0
AsU8_Saturating(x) == IF x < 0 THEN 0 ELSE x % 256

\* x as u8: the low eight bits of the two's complement
AsU8(x) == x % 256

\* enum Op
OpReverseBits == [op |-> "ReverseBits", n |-> 0]
OpXor(n) == [op |-> "Xor", n |-> n]
OpXorPos == [op |-> "XorPos", n |-> 0]
OpAdd(n) == [op |-> "Add", n |-> n]
OpAddPos == [op |-> "AddPos", n |-> 0]

RECURSIVE ParseOps(_, _)
\* the while loop of Cipher::new from the 1-based index i: an op code, and for
\* Xor and Add the byte behind it, whatever that is
ParseOps(bytes, i) ==
    IF i >= Len(bytes) THEN Ok(<<>>)
    ELSE IF bytes[i] \notin 1..5 THEN Err
    ELSE LET op == CASE bytes[i] = 1 -> OpReverseBits
                      [] bytes[i] = 2 -> OpXor(bytes[i + 1])
                      [] bytes[i] = 3 -> OpXorPos
                      [] bytes[i] = 4 -> OpAdd(bytes[i + 1])
                      [] bytes[i] = 5 -> OpAddPos
             rest == ParseOps(bytes, i + (IF bytes[i] \in {2, 4} THEN 2 ELSE 1))
         IN  IF rest.res # "ok" THEN Err ELSE Ok(<<op>> \o rest.val)

\* Cipher::new
CipherNew(bytes) ==
    IF ~(Len(bytes) > 1) THEN Err
    ELSE IF bytes[Len(bytes)] # 0 THEN Err
    ELSE ParseOps(bytes, 1)

\* one op of encode_one
EncodeOp(op, start_offset, b) ==
    CASE op.op = "ReverseBits" -> ReverseBits(b)
      [] op.op = "Add" -> (b + op.n) % 256
      [] op.op = "AddPos" -> (b + start_offset) % 256
      [] op.op = "Xor" -> Xor(b, op.n)
      [] op.op = "XorPos" -> Xor(b, start_offset % 256)

\* one op of decode_one
DecodeOp(op, start_offset, b) ==
    CASE op.op = "ReverseBits" -> ReverseBits(b)
      [] op.op = "Add" -> AsU8(Rem(b - op.n, 256))
      [] op.op = "AddPos" -> AsU8(Rem(b - start_offset, 256))
      [] op.op = "Xor" -> Xor(b, op.n)
      [] op.op = "XorPos" -> Xor(b, start_offset % 256)

RECURSIVE EncodeOne(_, _, _)
\* Cipher::encode_one: for op in &self.ops
EncodeOne(ops, start_offset, input) ==
    IF ops = <<>> THEN input
    ELSE EncodeOne(Tail(ops), start_offset, EncodeOp(Head(ops), start_offset, input))

RECURSIVE DecodeOne(_, _, _)
\* Cipher::decode_one: for op in self.ops.iter().rev()
DecodeOne(ops, start_offset, input) ==
    IF ops = <<>> THEN input
    ELSE DecodeOne(SubSeq(ops, 1, Len(ops) - 1), start_offset,
                   DecodeOp(ops[Len(ops)], start_offset, input))

\* Cipher::encode
Encode(ops, start_offset, input) ==
    LET res == [i \in 1..Len(input) |-> EncodeOne(ops, start_offset + (i - 1), input[i])]
    IN  IF input = res THEN Err ELSE Ok(res)

\* Cipher::decode
Decode(ops, start_offset, input) ==
    LET res == [i \in 1..Len(input) |-> DecodeOne(ops, start_offset + (i - 1), input[i])]
    IN  IF input = res THEN Err ELSE Ok(res)

\* ------------------------------------------------------- SessionState::add
CountNL(s) == Cardinality({i \in 1..Len(s) : s[i] = NL})

RECURSIVE SplitNL(_)
\* slice::split(|b| *b == b'\n')
SplitNL(s) ==
    IF \A i \in 1..Len(s) : s[i] # NL
    THEN <<s>>
    ELSE LET i == CHOOSE k \in 1..Len(s) :
                      s[k] = NL /\ \A j \in 1..(k - 1) : s[j] # NL
         IN  <<SubSeq(s, 1, i - 1)>> \o SplitNL(SubSeq(s, i + 1, Len(s)))

Skip(seq, n) == SubSeq(seq, n + 1, Len(seq))

Reverse(s) == [i \in 1..Len(s) |-> s[Len(s) + 1 - i]]

\* (mutant) the new bytes replace the stream instead of extending it
Extend_Replace(old, data) == data

\* self.data.extend(data)
Extend(old, data) == old \o data

\* the pieces add looks at: split on newline, skip(old_full_lines)
NewLines(state, data) == Skip(SplitNL(Extend(state.data, data)), state.full_lines)

\* (mutant) add sends every piece, the unfinished last line too
SendIdx_All(state, data) == Len(NewLines(state, data))

\* how many of them add sends
SendIdx(state, data) ==
    IF state.should_close
    THEN Len(NewLines(state, data))
    ELSE Len(NewLines(state, data)) - 1

\* whether add sends anything at all
AddSends(state, data) ==
    state.full_lines < CountNL(Extend(state.data, data)) \/ state.should_close

\* the byte vectors add sends into self.ch, in order
AddLines(state, data) ==
    IF AddSends(state, data)
    THEN LET new_lines == NewLines(state, data)
         IN  [i \in 1..SendIdx(state, data) |->
                 Reverse(new_lines[i]) \o
                 (IF i - 1 # Len(new_lines) - 1 THEN <<NL>> ELSE <<>>)]
    ELSE <<>>

\* (mutant) add counts the lines but never stores the bytes
AddState_NoExtend(state, data) ==
    [state EXCEPT !.full_lines = CountNL(Extend(state.data, data))]

\* the session after add
AddState(state, data) ==
    [state EXCEPT !.data = Extend(state.data, data),
                  !.full_lines = CountNL(Extend(state.data, data))]

RECURSIVE SumLen(_)
SumLen(seqs) == IF seqs = <<>> THEN 0 ELSE Len(Head(seqs)) + SumLen(Tail(seqs))

\* the inbound offsets (0-based) whose bytes add puts into the lines it sends
AddOffsets(state, data) ==
    IF AddSends(state, data)
    THEN LET all == SplitNL(Extend(state.data, data))
             start(j) == SumLen(SubSeq(all, 1, j - 1)) + (j - 1)
             new_lines == NewLines(state, data)
         IN  UNION {
               LET j == state.full_lines + i
               IN  {start(j) + k : k \in 0..(Len(all[j]) - 1)} \cup
                   (IF i - 1 # Len(new_lines) - 1
                    THEN {start(j) + Len(all[j])} ELSE {})
               : i \in 1..SendIdx(state, data)}
    ELSE {}

\* -------------------------------------------------------- history counters
\* counts, a sequence indexed by offset + 1, with every offset of offs counted once more
Bump(counts, offs) ==
    LET top == IF offs = {} THEN 0 ELSE (CHOOSE m \in offs : \A o \in offs : o <= m) + 1
        n == IF top > Len(counts) THEN top ELSE Len(counts)
    IN  [i \in 1..n |->
            (IF i <= Len(counts) THEN counts[i] ELSE 0) +
            (IF (i - 1) \in offs THEN 1 ELSE 0)]

NoHist == [handed |-> <<>>, consumed |-> <<>>, dropped |-> {}]

\* hist after add(data) on session, the frame claiming the bytes start at offset pos
HistAdd(session, state, pos, data) ==
    [hist EXCEPT ![session].handed = Bump(@, {pos + k : k \in 0..(Len(data) - 1)}),
                 ![session].consumed = Bump(@, AddOffsets(state, data))]

\* ------------------------------------------------------------ receive loop
\* (mutant) the peer address of the datagram is not recorded
NewSession_FixedAddr(session, addr) ==
    [id |-> session, addr |-> "peerA", data |-> <<>>, full_lines |-> 0,
     ack |-> 0, pending |-> <<>>, should_close |-> FALSE]

\* SessionState { id, addr, data: vec![], full_lines: 0, ch, ack: 0, pending: vec![], should_close: false }
NewSession(session, addr) ==
    [id |-> session, addr |-> addr, data |-> <<>>, full_lines |-> 0,
     ack |-> 0, pending |-> <<>>, should_close |-> FALSE]

\* the spawned task: let mut pos = 0u64, waiting in select!
NewTask(session, addr) ==
    [pc |-> "select", pos |-> 0, chunks |-> <<>>, addr |-> addr]

Max(a, b) == IF a >= b THEN a ELSE b

\* (mutant) only an ACK below the acknowledged length is taken as stale
AckIsStale_Strict(state, len) == len < state.ack

\* if len <= state.ack { continue; }
AckIsStale(state, len) == len <= state.ack

\* if len <= state.data.len() as u64
AckInBound(state, len) == len <= Len(state.data)

\* state.ack = len.max(state.ack)
NewAck(state, len) == Max(len, state.ack)

\* (mutant) a segment that ends exactly at the acknowledged offset is kept
KeepPending_Inclusive(msg, ack) == msg.kind = "data" /\ msg.pos + Len(msg.data) >= ack

\* the filter of state.pending.drain(..)
KeepPending(msg, ack) == msg.kind = "data" /\ msg.pos + Len(msg.data) > ack

FilterPending(pending, ack) == SelectSeq(pending, LAMBDA msg : KeepPending(msg, ack))

\* the session after a non-stale, in-bound ACK
AckState(state, len) ==
    [state EXCEPT !.ack = NewAck(state, len),
                  !.pending = FilterPending(state.pending, NewAck(state, len))]

\* (mutant) the close is taken as graceful whenever nothing is pending
CloseAllAcked_NothingPending(state) == state.pending = <<>>

\* if state.ack == state.data.len() as u64
CloseAllAcked(state) == state.ack = Len(state.data)

\* (mutant) every deferred CLOSE flushes, also when should_close is already set
CloseMarks_Always(state) == TRUE

\* (mutant) the guard tests for unacknowledged bytes instead of the flag
CloseMarks_Unacked(state) == state.ack # Len(state.data)

\* if !state.should_close
CloseMarks(state) == ~state.should_close

\* (mutant) a frame at or below the delivered length is taken as in order
DataInOrder_AtMost(state, pos) == pos <= Len(state.data)

\* if state.data.len() == pos as usize
DataInOrder(state, pos) == Len(state.data) = pos

\* (mutant) the entry is never looked up: every CONNECT inserts
ConnectOccupied_Never(reg, session) == FALSE

\* match sessions.lock().await.entry(session): Occupied(_)
ConnectOccupied(reg, session) == session \in DOMAIN reg

\* (mutant) a DATA frame is processed also when the session is marked for closing
DataSkipped_Never(state) == FALSE

\* if state.should_close { continue; }
DataSkipped(state) == state.should_close

\* (mutant) a CLOSE for an unknown session is ignored like DATA and ACK are
CloseReply_None(session, addr) == <<>>

\* the else branch of the Close handler: "Closing unknown session", send_to(CLOSE, addr)
CloseReply(session, addr) == <<Datagram(Close(session), addr)>>

\* (mutant) DATA for an unknown session is answered with CLOSE
UnknownDataReply_Close(session, addr) == <<Datagram(Close(session), addr)>>

\* the else branch of the Data handler: "Data for unknown session, ignoring"
UnknownDataReply(session, addr) == <<>>

\* a failed send_to followed by `?` ends main
AfterSend(ok) == alive' = ok

\* Ok(Message::Ack { session, len })
RecvAck(session, len, addr, ok) ==
    /\ alive
    /\ UNCHANGED aside
    /\ last' = [kind |-> "ack", session |-> session]
    /\ handed' = <<>>
    /\ UNCHANGED <<chan, tasks>>
    /\ IF session \in DOMAIN sessions
       THEN LET state == sessions[session]
            IN  IF AckIsStale(state, len)
                THEN out' = <<>> /\ UNCHANGED <<sessions, alive, hist>>
                ELSE IF AckInBound(state, len)
                THEN LET new == AckState(state, len)
                         closing == new.pending = <<>> /\ new.should_close
                     IN  /\ sessions' = [sessions EXCEPT ![session] = new]
                         /\ hist' = [hist EXCEPT ![session].dropped = @ \cup
                                {state.pending[i].pos : i \in
                                    {k \in 1..Len(state.pending) :
                                        ~KeepPending(state.pending[k], new.ack)}}]
                         /\ IF closing
                            THEN /\ out' = <<Datagram(Close(session), addr)>>
                                 /\ AfterSend(ok)
                            ELSE UNCHANGED <<alive>> /\ out' = <<>>
                ELSE /\ out' = <<Datagram(Close(session), addr)>>
                     /\ AfterSend(ok)
                     /\ UNCHANGED <<sessions, hist>>
       ELSE out' = <<>> /\ UNCHANGED <<sessions, alive, hist>>

\* Ok(Message::Close { session })
RecvClose(session, addr, ok) ==
    /\ alive
    /\ UNCHANGED aside
    /\ last' = [kind |-> "close", session |-> session]
    /\ UNCHANGED tasks
    /\ IF session \in DOMAIN sessions
       THEN LET state == sessions[session]
            IN  IF CloseAllAcked(state)
                THEN /\ out' = <<Datagram(Close(session), addr)>>
                     /\ AfterSend(ok)
                     /\ handed' = <<>>
                     /\ UNCHANGED <<sessions, chan, hist>>
                ELSE IF CloseMarks(state)
                THEN LET marked == [state EXCEPT !.should_close = TRUE]
                     IN  /\ sessions' = [sessions EXCEPT ![session] = AddState(marked, <<>>)]
                         /\ chan' = [chan EXCEPT ![session] = @ \o AddLines(marked, <<>>)]
                         /\ hist' = HistAdd(session, marked, Len(state.data), <<>>)
                         /\ handed' = <<(<<>>)>>
                         /\ out' = <<>>
                         /\ UNCHANGED alive
                ELSE /\ handed' = <<>>
                     /\ out' = <<>>
                     /\ UNCHANGED <<sessions, chan, alive, hist>>
       ELSE /\ out' = CloseReply(session, addr)
            /\ AfterSend(ok)
            /\ handed' = <<>>
            /\ UNCHANGED <<sessions, chan, hist>>

\* Ok(Message::Connect { session })
RecvConnect(session, addr, ok) ==
    /\ alive
    /\ UNCHANGED aside
    /\ last' = [kind |-> "connect", session |-> session]
    /\ handed' = <<>>
    /\ out' = <<Datagram(Ack(session, 0), addr)>>
    /\ AfterSend(ok)
    /\ IF ConnectOccupied(sessions, session)
       THEN UNCHANGED <<sessions, chan, tasks, hist>>
       ELSE /\ sessions' = (session :> NewSession(session, addr)) @@ sessions
            /\ chan' = (session :> <<>>) @@ chan
            /\ tasks' = (session :> NewTask(session, addr)) @@ tasks
            /\ hist' = (session :> NoHist) @@ hist

\* datagrams Message::parse does not accept: the empty one, "/", a connect
\* without number, an ack without length, a close with two numbers, a data
\* frame without the closing '/', and "/data/1/2/"
Malformed ==
    { <<>>,
      <<Slash>>,
      PConnect,
      PAck \o <<Zero + 1, Slash>>,
      PClose \o <<Zero + 1, Slash, Zero + 1, Slash>>,
      PData \o <<Zero + 1, Slash, Zero, Slash, 120>>,
      PData \o <<Zero + 1, Slash, Zero + 2, Slash>> }

\* Err(e) => println!("error: {:?}", e); a panic inside parse ends main
RecvMalformed(wire) ==
    /\ alive
    /\ UNCHANGED aside
    /\ Parse(wire).res # "ok"
    /\ last' = [kind |-> "malformed", session |-> 0]
    /\ out' = <<>>
    /\ handed' = <<>>
    /\ alive' = (Parse(wire).res # "panic")
    /\ UNCHANGED <<sessions, chan, tasks, hist>>

\* the model's cap on the inbound stream: a DATA frame for a session that still takes data must fit
DataFits(session, pos, data) ==
    (/\ session \in DOMAIN sessions
     /\ ~DataSkipped(sessions[session]))
    => Len(sessions[session].data) + Len(data) <= MaxData

\* Ok(Message::Data { session, pos, data })
RecvData(session, pos, data, addr, ok) ==
    /\ alive
    /\ UNCHANGED aside
    /\ DataFits(session, pos, data)
    /\ last' = [kind |-> "data", session |-> session]
    /\ UNCHANGED tasks
    /\ IF session \in DOMAIN sessions
       THEN LET state == sessions[session]
            IN  IF DataSkipped(state)
                THEN /\ handed' = <<>>
                     /\ out' = <<>>
                     /\ UNCHANGED <<sessions, chan, alive, hist>>
                ELSE IF DataInOrder(state, pos)
                THEN LET new == AddState(state, data)
                     IN  /\ handed' = <<data>>
                         /\ AfterSend(ok)
                         /\ sessions' = [sessions EXCEPT ![session] = new]
                         /\ chan' = [chan EXCEPT ![session] = @ \o AddLines(state, data)]
                         /\ hist' = HistAdd(session, state, pos, data)
                         /\ out' = <<Datagram(Ack(session, Len(new.data)), state.addr)>>
                ELSE /\ handed' = <<>>
                     /\ out' = <<Datagram(Ack(session, Len(state.data)), state.addr)>>
                     /\ AfterSend(ok)
                     /\ UNCHANGED <<sessions, chan, hist>>
       ELSE /\ handed' = <<>>
            /\ out' = UnknownDataReply(session, addr)
            /\ UNCHANGED <<sessions, chan, alive, hist>>

\* ------------------------------------------- sender / retransmission task
\* (mutant) the vector is sent whole, whatever its length
Chunks_Whole(data, n) == IF Len(data) = 0 THEN <<>> ELSE <<data>>

RECURSIVE Chunks(_, _)
\* slice::chunks(n)
Chunks(data, n) ==
    IF Len(data) = 0 THEN <<>>
    ELSE IF Len(data) <= n THEN <<data>>
    ELSE <<SubSeq(data, 1, n)>> \o Chunks(SubSeq(data, n + 1, Len(data)), n)

\* (mutant) the resend loop stops after the first pending message
Resend_First(state) ==
    [i \in 1..(IF state.pending = <<>> THEN 0 ELSE 1) |->
        Datagram(state.pending[i], state.addr)]

\* for msg in &state.pending { socket.send_to(&msg.serialize().unwrap(), state.addr) }
Resend(state) ==
    [i \in 1..Len(state.pending) |-> Datagram(state.pending[i], state.addr)]

\* _ = interval.tick() => resend every pending message to state.addr
TaskTick(session) ==
    /\ alive
    /\ UNCHANGED aside
    /\ session \in DOMAIN tasks
    /\ tasks[session].pc = "select"
    /\ last' = [kind |-> "tick", session |-> session]
    /\ out' = IF session \in DOMAIN sessions
              THEN Resend(sessions[session])
              ELSE <<>>
    /\ handed' = <<>>
    /\ UNCHANGED <<sessions, chan, tasks, alive, hist>>

\* Ok(mut data) = r.recv() => start the loop over data.chunks(512)
TaskRecv(session) ==
    /\ alive
    /\ UNCHANGED aside
    /\ session \in DOMAIN tasks
    /\ tasks[session].pc = "select"
    /\ chan[session] # <<>>
    /\ LET chunks == Chunks(Head(chan[session]), ChunkSize)
       IN  tasks' = [tasks EXCEPT ![session].chunks = chunks,
                                  ![session].pc = IF chunks = <<>> THEN "select" ELSE "send"]
    /\ chan' = [chan EXCEPT ![session] = Tail(@)]
    /\ last' = [kind |-> "recv", session |-> session]
    /\ out' = <<>>
    /\ handed' = <<>>
    /\ UNCHANGED <<sessions, alive, hist>>

\* socket.send_to(&msg.serialize().unwrap(), addr).await
TaskSend(session) ==
    /\ alive
    /\ UNCHANGED aside
    /\ session \in DOMAIN tasks
    /\ tasks[session].pc = "send"
    /\ LET t == tasks[session]
       IN  out' = <<Datagram(Data(session, t.pos, Head(t.chunks)), t.addr)>>
    /\ tasks' = [tasks EXCEPT ![session].pc = "push"]
    /\ last' = [kind |-> "send", session |-> session]
    /\ handed' = <<>>
    /\ UNCHANGED <<sessions, chan, alive, hist>>

\* state.pending.push(msg); pos += chunk.len()
TaskPush(session) ==
    /\ alive
    /\ UNCHANGED aside
    /\ session \in DOMAIN tasks
    /\ tasks[session].pc = "push"
    /\ LET t == tasks[session]
           msg == Data(session, t.pos, Head(t.chunks))
       IN  /\ sessions' = IF session \in DOMAIN sessions
                          THEN [sessions EXCEPT ![session].pending = Append(@, msg)]
                          ELSE sessions
           /\ tasks' = [tasks EXCEPT
                  ![session].pos = t.pos + Len(Head(t.chunks)),
                  ![session].chunks = Tail(t.chunks),
                  ![session].pc = IF Tail(t.chunks) = <<>> THEN "select" ELSE "send"]
    /\ last' = [kind |-> "push", session |-> session]
    /\ out' = <<>>
    /\ handed' = <<>>
    /\ UNCHANGED <<chan, alive, hist>>

\* the bytes queued for outbound transmission on session so far: those the
\* task has made segments of (pos), those of the vector it is chunking, and
\* those still in the channel
SentBytes(session) ==
    tasks[session].pos + SumLen(tasks[session].chunks) + SumLen(chan[session])

\* ----------------------------------------------------------- specification
Init ==
    /\ sessions = <<>>
    /\ chan = <<>>
    /\ tasks = <<>>
    /\ alive = TRUE
    /\ out = <<>>
    /\ handed = <<>>
    /\ last = [kind |-> "init", session |-> 0]
    /\ hist = <<>>
    /\ call = Idle
    /\ mutex = NoMutex
    /\ actor = <<>>
    /\ peer = <<>>
    /\ server = NoServer
    /\ clients = <<>>
    /\ NEXT_ID = 0
    /\ holder = <<>>

Next ==
    \/ \E session \in Ids, len \in Positions, addr \in Addrs, ok \in BOOLEAN :
           RecvAck(session, len, addr, ok)
    \/ \E session \in Ids, addr \in Addrs, ok \in BOOLEAN :
           RecvClose(session, addr, ok)
    \/ \E session \in Ids, addr \in Addrs, ok \in BOOLEAN :
           RecvConnect(session, addr, ok)
    \/ \E session \in Ids, pos \in Positions, data \in Payloads, addr \in Addrs, ok \in BOOLEAN :
           RecvData(session, pos, data, addr, ok)
    \/ \E wire \in Malformed : RecvMalformed(wire)
    \/ \E session \in Ids : TaskTick(session)
    \/ \E session \in Ids : TaskRecv(session)
    \/ \E session \in Ids : TaskSend(session)
    \/ \E session \in Ids : TaskPush(session)

Spec == Init /\ [][Next]_vars

\* ------------------------------------- specification with an honest peer
\* the bytes the task has put on the wire at least once: pos counts the chunks
\* already pushed, and a chunk is sent before it is pushed
Emitted(session) ==
    tasks[session].pos +
        (IF tasks[session].pc = "push" THEN Len(Head(tasks[session].chunks)) ELSE 0)

\* the peer acknowledges a contiguous length it has received: at most what was
\* put on the wire (datagrams may be lost), from the session's address
PeerAck(session, len) ==
    /\ session \in DOMAIN sessions
    /\ len <= Emitted(session)
    /\ RecvAck(session, len, sessions[session].addr, TRUE)

\* every datagram sent again and again is delivered at last: the peer
\* acknowledges all that was put on the wire
PeerAckAll(session) ==
    /\ session \in DOMAIN sessions
    /\ PeerAck(session, Emitted(session))

NextLive ==
    \/ \E session \in Ids, addr \in Addrs : RecvConnect(session, addr, TRUE)
    \/ \E session \in Ids, pos \in Positions, data \in Payloads, addr \in Addrs :
           RecvData(session, pos, data, addr, TRUE)
    \/ \E session \in Ids, len \in Positions : PeerAck(session, len)
    \/ \E session \in Ids : TaskTick(session)
    \/ \E session \in Ids : TaskRecv(session)
    \/ \E session \in Ids : TaskSend(session)
    \/ \E session \in Ids : TaskPush(session)

\* the runtime schedules a ready task (recv, send_to and lock complete), the
\* interval fires, and the peer acknowledges what reaches it
Fairness ==
    \A session \in Ids :
        /\ WF_vars(TaskTick(session))
        /\ WF_vars(TaskRecv(session))
        /\ WF_vars(TaskSend(session))
        /\ WF_vars(TaskPush(session))
        /\ WF_vars(PeerAckAll(session))

SpecLive == Init /\ [][NextLive]_vars /\ Fairness

\* ------------------------------ specification of parse and serialize alone
\* the bytes wire bodies are made of: '0', '1', '+', '/' and '\\'
WireBytes == {Zero, Zero + 1, Plus, Slash, Backslash}
Bodies == UNION {[1..n -> WireBytes] : n \in 0..MaxBody}
\* wire strings: any body after each prefix (and after none), and any body as
\* the payload field of a data frame
Wires ==
    {p \o b : p \in {<<>>, PConnect, PAck, PClose, PData}, b \in Bodies} \cup
    {PData \o <<Zero + 1, Slash, Zero, Slash>> \o b \o <<Slash>> : b \in Bodies}

\* frame values: numbers of one, two and four digits, payloads of '\\', '/',
\* 'x' and the byte 0xFF
Nums == {0, 7, 10, 1234}
FrameBytes == {Backslash, Slash, 120, 255}
FramePayloads == UNION {[1..n -> FrameBytes] : n \in 0..MaxFramePayload}
Frames ==
    {Connect(n) : n \in Nums} \cup {Close(n) : n \in Nums} \cup
    {Ack(n, m) : n \in Nums, m \in Nums} \cup
    {Data(n, m, d) : n \in Nums, m \in Nums, d \in FramePayloads}

\* a call not yet made
Pending(fn, in) == [fn |-> fn, in |-> in, stage |-> 0, mid |-> Err, back |-> Err]

\* f.serialize()
SerializeFrame ==
    /\ call.fn = "encode" /\ call.stage = 0
    /\ call' = [call EXCEPT !.stage = 1, !.mid = Serialize(call.in)]
    /\ UNCHANGED <<p07vars, mutex, actor, peer, p09vars>>

\* Message::parse(&f.serialize().unwrap())
ParseBack ==
    /\ call.fn = "encode" /\ call.stage = 1 /\ call.mid.res = "ok"
    /\ call' = [call EXCEPT !.stage = 2, !.back = Parse(call.mid.val)]
    /\ UNCHANGED <<p07vars, mutex, actor, peer, p09vars>>

\* Message::parse(s)
ParseWire ==
    /\ call.fn = "decode" /\ call.stage = 0
    /\ call' = [call EXCEPT !.stage = 1, !.mid = Parse(call.in)]
    /\ UNCHANGED <<p07vars, mutex, actor, peer, p09vars>>

\* Message::parse(s).unwrap().serialize()
SerializeBack ==
    /\ call.fn = "decode" /\ call.stage = 1 /\ call.mid.res = "ok"
    /\ call' = [call EXCEPT !.stage = 2, !.back = Serialize(call.mid.val)]
    /\ UNCHANGED <<p07vars, mutex, actor, peer, p09vars>>

\* the payload decoder of the data branch on its own
DecodeBody ==
    /\ call.fn = "payload" /\ call.stage = 0
    /\ call' = [call EXCEPT !.stage = 1, !.mid = DecodePayload(call.in)]
    /\ UNCHANGED <<p07vars, mutex, actor, peer, p09vars>>

InitCodec ==
    /\ sessions = <<>>
    /\ chan = <<>>
    /\ tasks = <<>>
    /\ alive = TRUE
    /\ out = <<>>
    /\ handed = <<>>
    /\ last = [kind |-> "init", session |-> 0]
    /\ hist = <<>>
    /\ call \in {Pending("encode", f) : f \in Frames} \cup
                {Pending("decode", w) : w \in Wires} \cup
                {Pending("payload", b) : b \in Bodies}
    /\ mutex = NoMutex
    /\ actor = <<>>
    /\ peer = <<>>
    /\ server = NoServer
    /\ clients = <<>>
    /\ NEXT_ID = 0
    /\ holder = <<>>

NextCodec ==
    \/ SerializeFrame
    \/ ParseBack
    \/ ParseWire
    \/ SerializeBack
    \/ DecodeBody

SpecCodec == InitCodec /\ [][NextCodec]_vars

\* ------------------------------ specification of the sender task on its own
\* a session whose peer has sent one or two whole lines, of one repeated byte,
\* before the task ran: add has put the reversed lines into the channel
Fill(n, b) == [i \in 1..n |-> b]
LineLens == {0, 1, ChunkSize - 1, ChunkSize, MaxLine}
FillBytes == {120, Slash, Backslash}
Inbound ==
    {Fill(n, b) \o <<NL>> : n \in LineLens, b \in FillBytes} \cup
    {Fill(n, 120) \o <<NL>> \o Fill(m, b) \o <<NL>> :
        n \in {1, ChunkSize}, m \in LineLens, b \in FillBytes}

\* the registry entry after CONNECT from peerA and DATA frames carrying data
Received(session, data) == AddState(NewSession(session, "peerA"), data)

InitQueue ==
    /\ \E data \in Inbound :
          /\ sessions = (1 :> Received(1, data))
          /\ chan = (1 :> AddLines(NewSession(1, "peerA"), data))
          /\ hist = (1 :> [handed |-> [i \in 1..Len(data) |-> 1],
                           consumed |-> [i \in 1..Len(data) |-> 1],
                           dropped |-> {}])
    /\ tasks = (1 :> NewTask(1, "peerA"))
    /\ alive = TRUE
    /\ out = <<>>
    /\ handed = <<>>
    /\ last = [kind |-> "data", session |-> 1]
    /\ call = Idle
    /\ mutex = NoMutex
    /\ actor = <<>>
    /\ peer = <<>>
    /\ server = NoServer
    /\ clients = <<>>
    /\ NEXT_ID = 0
    /\ holder = <<>>

NextQueue ==
    \/ \E session \in Ids : TaskTick(session)
    \/ \E session \in Ids : TaskRecv(session)
    \/ \E session \in Ids : TaskSend(session)
    \/ \E session \in Ids : TaskPush(session)

SpecQueue == InitQueue /\ [][NextQueue]_vars

\* ------------------- specification of the mutex around the registry alone
\* The receive loop and the sender tasks, each step an await point or a lock
\* operation of the code; what the handlers compute is left to choice (which
\* branch is taken, how many lines add sends, how many messages are pending).
\* most vectors in a session's channel
MaxQueued == 2
\* most lines one call of add sends
MaxAdd == 1
\* most pending messages a tick resends
MaxResend == 1
\* the sessions whose tasks contend with the receive loop
LockIds == {1, 2}
\* the receive loop is actor 0, the task of session s is actor s
Main == 0
\* the vectors add sends: a line of two chunks
LockLines == {Fill(ChunkSize + 1, 120)}
LockAdds == UNION {[1..k -> LockLines] : k \in 0..MaxAdd}

\* the receive loop in socket.recv_from, a task in select!
AtRest(a) == [pc |-> IF a = Main THEN "recv_from" ELSE "select",
              n |-> 0, session |-> a, lines |-> <<>>, reply |-> FALSE]

\* for C33: the future of sessions.lock() of actor a is pending
C33_Waits(a) == \E i \in 1..Len(mutex.queue) : mutex.queue[i] = a

\* sessions.lock(): the caller joins the FIFO of the mutex
Enqueue(a) == [mutex EXCEPT !.queue = Append(@, a)]

\* .await of the lock future: granted to the first waiter of a free mutex
Granted(a) ==
    /\ mutex.owner = <<>>
    /\ mutex.queue # <<>>
    /\ Head(mutex.queue) = a

Grant(a) == [owner |-> <<a>>, queue |-> Tail(mutex.queue)]

\* the MutexGuard of a is dropped
Release(a) == [mutex EXCEPT !.owner = <<>>]

\* (mutant) the channel holds one vector: send waits while it is full
ChanHasRoom_Bounded(c) == Len(c) < 1

\* let ch = unbounded(): self.ch.0.send(line).await never waits
ChanHasRoom(c) == TRUE

\* socket.recv_from returned a frame parse accepts: sessions.lock()
MainRecvFrom ==
    /\ alive
    /\ actor[Main].pc = "recv_from"
    /\ actor' = [actor EXCEPT ![Main].pc = "lock"]
    /\ mutex' = Enqueue(Main)
    /\ UNCHANGED <<sessions, chan, tasks, alive, out, handed, last, hist>>
    /\ UNCHANGED <<call, peer, p09vars>>

\* sessions.lock().await completes in the receive loop
MainLock ==
    /\ alive
    /\ actor[Main].pc = "lock"
    /\ Granted(Main)
    /\ mutex' = Grant(Main)
    /\ actor' = [actor EXCEPT ![Main].pc = "held"]
    /\ UNCHANGED <<sessions, chan, tasks, alive, out, handed, last, hist>>
    /\ UNCHANGED <<call, peer, p09vars>>

\* Vacant(e): ch = unbounded(), tokio::spawn of the task, e.insert, then the
\* send_to of the ACK, all under the guard
MainConnect(session) ==
    /\ alive
    /\ actor[Main].pc = "held"
    /\ session \notin DOMAIN chan
    /\ chan' = (session :> <<>>) @@ chan
    /\ actor' = (session :> AtRest(session)) @@
                [actor EXCEPT ![Main].pc = "send_to"]
    /\ UNCHANGED <<sessions, tasks, alive, out, handed, last, hist>>
    /\ UNCHANGED <<call, mutex, peer, p09vars>>

\* any other branch of the four handlers, under the guard: it may call add
\* (which sends lines into the channel of a registered session) and may reply
MainHandle(session, lines, reply) ==
    /\ alive
    /\ actor[Main].pc = "held"
    /\ IF session \in DOMAIN chan
       THEN Len(chan[session]) + Len(lines) <= MaxQueued
       ELSE lines = <<>>
    /\ actor' = [actor EXCEPT ![Main] =
                    [pc |-> "add", n |-> 0, session |-> session,
                     lines |-> lines, reply |-> reply]]
    /\ UNCHANGED <<sessions, chan, tasks, alive, out, handed, last, hist>>
    /\ UNCHANGED <<call, mutex, peer, p09vars>>

\* self.ch.0.send(line).await inside add, under the guard
MainAdd ==
    /\ alive
    /\ actor[Main].pc = "add"
    /\ actor[Main].lines # <<>>
    /\ ChanHasRoom(chan[actor[Main].session])
    /\ chan' = [chan EXCEPT ![actor[Main].session] = Append(@, Head(actor[Main].lines))]
    /\ actor' = [actor EXCEPT ![Main].lines = Tail(@)]
    /\ UNCHANGED <<sessions, tasks, alive, out, handed, last, hist>>
    /\ UNCHANGED <<call, mutex, peer, p09vars>>

\* add has returned: the handler goes on to its send_to, or ends (or
\* continues the loop) and drops the guard
MainAdded ==
    /\ alive
    /\ actor[Main].pc = "add"
    /\ actor[Main].lines = <<>>
    /\ IF actor[Main].reply
       THEN /\ actor' = [actor EXCEPT ![Main].pc = "send_to"]
            /\ UNCHANGED mutex
       ELSE /\ actor' = [actor EXCEPT ![Main] = AtRest(Main)]
            /\ mutex' = Release(Main)
    /\ UNCHANGED <<sessions, chan, tasks, alive, out, handed, last, hist>>
    /\ UNCHANGED <<call, peer, p09vars>>

\* socket.send_to(..).await? under the guard: on Ok the handler ends and the
\* guard is dropped; on Err main returns, and the runtime drops every task
\* with the guards and lock futures it holds
MainSendTo(ok) ==
    /\ alive
    /\ actor[Main].pc = "send_to"
    /\ alive' = ok
    /\ IF ok
       THEN /\ actor' = [actor EXCEPT ![Main] = AtRest(Main)]
            /\ mutex' = Release(Main)
       ELSE /\ actor' = [a \in DOMAIN actor |-> [actor[a] EXCEPT !.pc = "ended"]]
            /\ mutex' = NoMutex
    /\ UNCHANGED <<sessions, chan, tasks, out, handed, last, hist>>
    /\ UNCHANGED <<call, peer, p09vars>>

\* _ = interval.tick() => sessions.lock()
TickFire(session) ==
    /\ alive
    /\ session \in DOMAIN actor
    /\ actor[session].pc = "select"
    /\ actor' = [actor EXCEPT ![session].pc = "tick_lock"]
    /\ mutex' = Enqueue(session)
    /\ UNCHANGED <<sessions, chan, tasks, alive, out, handed, last, hist>>
    /\ UNCHANGED <<call, peer, p09vars>>

\* sessions.lock().await completes in the tick branch: n messages are pending
TickLock(session, n) ==
    /\ alive
    /\ session \in DOMAIN actor
    /\ actor[session].pc = "tick_lock"
    /\ Granted(session)
    /\ mutex' = Grant(session)
    /\ actor' = [actor EXCEPT ![session].pc = "resend", ![session].n = n]
    /\ UNCHANGED <<sessions, chan, tasks, alive, out, handed, last, hist>>
    /\ UNCHANGED <<call, peer, p09vars>>

\* for msg in &state.pending { socket.send_to(..).await }, under the guard
TickResend(session) ==
    /\ alive
    /\ session \in DOMAIN actor
    /\ actor[session].pc = "resend"
    /\ actor[session].n > 0
    /\ actor' = [actor EXCEPT ![session].n = @ - 1]
    /\ UNCHANGED <<sessions, chan, tasks, alive, out, handed, last, hist>>
    /\ UNCHANGED <<call, mutex, peer, p09vars>>

\* the end of the tick branch: the guard is dropped, back to select!
TickUnlock(session) ==
    /\ alive
    /\ session \in DOMAIN actor
    /\ actor[session].pc = "resend"
    /\ actor[session].n = 0
    /\ actor' = [actor EXCEPT ![session] = AtRest(session)]
    /\ mutex' = Release(session)
    /\ UNCHANGED <<sessions, chan, tasks, alive, out, handed, last, hist>>
    /\ UNCHANGED <<call, peer, p09vars>>

\* Ok(mut data) = r.recv() => the loop over data.chunks(512) starts
ChanRecv(session) ==
    /\ alive
    /\ session \in DOMAIN actor
    /\ actor[session].pc = "select"
    /\ chan[session] # <<>>
    /\ LET n == Len(Chunks(Head(chan[session]), ChunkSize))
       IN  actor' = [actor EXCEPT ![session].n = n,
                                  ![session].pc = IF n = 0 THEN "select" ELSE "send"]
    /\ chan' = [chan EXCEPT ![session] = Tail(@)]
    /\ UNCHANGED <<sessions, tasks, alive, out, handed, last, hist>>
    /\ UNCHANGED <<call, mutex, peer, p09vars>>

\* socket.send_to(chunk).await without the guard, then sessions.lock()
ChunkSend(session) ==
    /\ alive
    /\ session \in DOMAIN actor
    /\ actor[session].pc = "send"
    /\ actor' = [actor EXCEPT ![session].pc = "push_lock"]
    /\ mutex' = Enqueue(session)
    /\ UNCHANGED <<sessions, chan, tasks, alive, out, handed, last, hist>>
    /\ UNCHANGED <<call, peer, p09vars>>

\* sessions.lock().await completes in the chunk loop
PushLock(session) ==
    /\ alive
    /\ session \in DOMAIN actor
    /\ actor[session].pc = "push_lock"
    /\ Granted(session)
    /\ mutex' = Grant(session)
    /\ actor' = [actor EXCEPT ![session].pc = "push"]
    /\ UNCHANGED <<sessions, chan, tasks, alive, out, handed, last, hist>>
    /\ UNCHANGED <<call, peer, p09vars>>

\* state.pending.push(msg), the guard is dropped, pos += chunk.len(): the
\* next chunk, or back to select!
PushUnlock(session) ==
    /\ alive
    /\ session \in DOMAIN actor
    /\ actor[session].pc = "push"
    /\ actor' = [actor EXCEPT ![session].n = @ - 1,
                              ![session].pc = IF actor[session].n = 1
                                              THEN "select" ELSE "send"]
    /\ mutex' = Release(session)
    /\ UNCHANGED <<sessions, chan, tasks, alive, out, handed, last, hist>>
    /\ UNCHANGED <<call, peer, p09vars>>

InitLock ==
    /\ sessions = <<>>
    /\ chan = <<>>
    /\ tasks = <<>>
    /\ alive = TRUE
    /\ out = <<>>
    /\ handed = <<>>
    /\ last = [kind |-> "init", session |-> 0]
    /\ hist = <<>>
    /\ call = Idle
    /\ mutex = NoMutex
    /\ actor = (Main :> AtRest(Main))
    /\ peer = <<>>
    /\ server = NoServer
    /\ clients = <<>>
    /\ NEXT_ID = 0
    /\ holder = <<>>

\* the steps of the receive loop that need nothing from the peer
MainStep ==
    \/ MainLock
    \/ \E session \in LockIds : MainConnect(session)
    \/ \E session \in LockIds, lines \in LockAdds, reply \in BOOLEAN :
           MainHandle(session, lines, reply)
    \/ MainAdd
    \/ MainAdded
    \/ \E ok \in BOOLEAN : MainSendTo(ok)

\* the steps of a task between two visits of select!
TaskStep(session) ==
    \/ \E n \in 0..MaxResend : TickLock(session, n)
    \/ TickResend(session)
    \/ TickUnlock(session)
    \/ ChunkSend(session)
    \/ PushLock(session)
    \/ PushUnlock(session)

NextLock ==
    \/ MainRecvFrom
    \/ MainLock
    \/ \E session \in LockIds : MainConnect(session)
    \/ \E session \in LockIds, lines \in LockAdds, reply \in BOOLEAN :
           MainHandle(session, lines, reply)
    \/ MainAdd
    \/ MainAdded
    \/ \E ok \in BOOLEAN : MainSendTo(ok)
    \/ \E session \in LockIds : TickFire(session)
    \/ \E session \in LockIds, n \in 0..MaxResend : TickLock(session, n)
    \/ \E session \in LockIds : TickResend(session)
    \/ \E session \in LockIds : TickUnlock(session)
    \/ \E session \in LockIds : ChanRecv(session)
    \/ \E session \in LockIds : ChunkSend(session)
    \/ \E session \in LockIds : PushLock(session)
    \/ \E session \in LockIds : PushUnlock(session)

\* the runtime polls a ready future: a granted lock, a send_to on the UDP
\* socket and a send into the channel complete
FairLock ==
    /\ WF_vars(MainStep)
    /\ \A session \in LockIds : WF_vars(TaskStep(session))

SpecLock == InitLock /\ [][NextLock]_vars /\ FairLock

\* ------------------------------------------ specification of two sessions
\* longest inbound stream of a session in the runs with two sessions
MaxTwo == 1
TwoIds == {1, 2}

\* (mutant) every lookup goes to the entry of session 1
Key_First(session) == 1

\* the registry key a handler or a task works on: get_mut(&session) and
\* entry(session) with the session field of the frame, the task with the
\* session its closure has captured
Key(session) == session

\* what the peer of session 2 has sent, all of it before the run starts
Bystander == <<NL>>

\* the model's cap on the inbound streams in the runs with two sessions:
\* session 1 takes up to MaxTwo bytes, session 2 no more than it has
TwoFits(session, data) ==
    /\ Len(data) <= MaxTwo
    /\ session \in DOMAIN sessions
          => Len(sessions[session].data) + Len(data)
                <= (IF session = 1 THEN MaxTwo ELSE Len(Bystander))

\* session 2 is connected and has received a newline before the run starts
InitTwo ==
    /\ sessions = (2 :> Received(2, Bystander))
    /\ chan = (2 :> AddLines(NewSession(2, "peerA"), Bystander))
    /\ tasks = (2 :> NewTask(2, "peerA"))
    /\ hist = (2 :> [handed |-> <<1>>, consumed |-> <<1>>, dropped |-> {}])
    /\ alive = TRUE
    /\ out = <<>>
    /\ handed = <<>>
    /\ last = [kind |-> "data", session |-> 2]
    /\ call = Idle
    /\ mutex = NoMutex
    /\ actor = <<>>
    /\ peer = <<>>
    /\ server = NoServer
    /\ clients = <<>>
    /\ NEXT_ID = 0
    /\ holder = <<>>

\* for C34: a frame whose session field is session arrives and is handled
C34_FrameFor(session) ==
    \/ \E len \in Positions : RecvAck(Key(session), len, "peerA", TRUE)
    \/ RecvClose(Key(session), "peerA", TRUE)
    \/ RecvConnect(Key(session), "peerA", TRUE)
    \/ \E pos \in Positions, data \in Payloads :
           /\ TwoFits(Key(session), data)
           /\ RecvData(Key(session), pos, data, "peerA", TRUE)

\* for C34: a step of the task spawned for session
C34_TaskOf(session) ==
    \/ TaskTick(Key(session))
    \/ TaskRecv(Key(session))
    \/ TaskSend(Key(session))
    \/ TaskPush(Key(session))

NextTwo ==
    \/ \E session \in TwoIds, len \in Positions :
           RecvAck(Key(session), len, "peerA", TRUE)
    \/ \E session \in TwoIds : RecvClose(Key(session), "peerA", TRUE)
    \/ \E session \in TwoIds : RecvConnect(Key(session), "peerA", TRUE)
    \/ \E session \in TwoIds, pos \in Positions, data \in Payloads :
           /\ TwoFits(Key(session), data)
           /\ RecvData(Key(session), pos, data, "peerA", TRUE)
    \/ \E session \in TwoIds : TaskTick(Key(session))
    \/ \E session \in TwoIds : TaskRecv(Key(session))
    \/ \E session \in TwoIds : TaskSend(Key(session))
    \/ \E session \in TwoIds : TaskPush(Key(session))

SpecTwo == InitTwo /\ [][NextTwo]_vars

\* ------------------------- specification with a peer sending one stream
\* the streams a peer sends: every byte string of the longest inbound length
Streams == [1..MaxData -> Bytes]

\* a DATA frame of the peer of session arrives (again, late or early): the
\* len bytes of its stream that start at offset pos
PeerData(session, pos, len) ==
    /\ session \in DOMAIN peer
    /\ pos + len <= Len(peer[session])
    /\ RecvData(session, pos, SubSeq(peer[session], pos + 1, pos + len), "peerA", TRUE)

InitStream ==
    /\ sessions = <<>>
    /\ chan = <<>>
    /\ tasks = <<>>
    /\ alive = TRUE
    /\ out = <<>>
    /\ handed = <<>>
    /\ last = [kind |-> "init", session |-> 0]
    /\ hist = <<>>
    /\ call = Idle
    /\ mutex = NoMutex
    /\ actor = <<>>
    /\ peer \in [Ids -> Streams]
    /\ server = NoServer
    /\ clients = <<>>
    /\ NEXT_ID = 0
    /\ holder = <<>>

NextStream ==
    \/ \E session \in Ids, len \in Positions : RecvAck(session, len, "peerA", TRUE)
    \/ \E session \in Ids : RecvClose(session, "peerA", TRUE)
    \/ \E session \in Ids : RecvConnect(session, "peerA", TRUE)
    \/ \E session \in Ids, pos \in Positions, len \in 0..MaxData :
           PeerData(session, pos, len)
    \/ \E session \in Ids : TaskTick(session)
    \/ \E session \in Ids : TaskRecv(session)
    \/ \E session \in Ids : TaskSend(session)
    \/ \E session \in Ids : TaskPush(session)

SpecStream == InitStream /\ [][NextStream]_vars

\* -------------------------------- job server of p09 (src/p09/src/*.rs)
\* most jobs ever put in a run
MaxJobs == 2
Clients == {"c1", "c2"}
Queues == {"q1", "q2"}
Pris == {1, 2}
\* the queues argument of a get request
QueueSets == {{"q1"}, {"q2"}, {"q1", "q2"}}

\* struct Job (the JSON value of the job is carried along and never looked at)
Job(id, queue, pri) == [id |-> id, queue |-> queue, pri |-> pri]

\* Vec::remove(idx), idx counted from 1
Remove(seq, idx) == SubSeq(seq, 1, idx - 1) \o SubSeq(seq, idx + 1, Len(seq))

\* .filter(|(_, job)| queues.contains(&job.queue)) over ready
Candidates(ready, queues) == {i \in 1..Len(ready) : ready[i].queue \in queues}

\* (mutant) the first candidate is taken, whatever its priority
CandidateIdx_First(ready, queues) ==
    IF Candidates(ready, queues) = {} THEN 0
    ELSE CHOOSE i \in Candidates(ready, queues) :
            \A j \in Candidates(ready, queues) : i <= j

\* .max_by_key(|(_, job)| job.pri).map(|(idx, _)| idx): the last of the
\* candidates of the highest priority; 0 for None
CandidateIdx(ready, queues) ==
    IF Candidates(ready, queues) = {} THEN 0
    ELSE CHOOSE i \in Candidates(ready, queues) :
            \A j \in Candidates(ready, queues) :
                \/ ready[j].pri < ready[i].pri
                \/ ready[j].pri = ready[i].pri /\ j <= i

\* JobServer::get for client c: the server after the call and what it
\* returned, Ok(Some(job)), Ok(None) or Err(receiver)
Get(srv, queues, wait, c) ==
    LET idx == CandidateIdx(srv.ready, queues)
    IN  IF idx # 0
        THEN [server |-> [srv EXCEPT !.ready = Remove(srv.ready, idx),
                                     !.running = Append(srv.running, srv.ready[idx])],
              res |-> "some", job |-> <<srv.ready[idx]>>]
        ELSE IF ~wait
        THEN [server |-> srv, res |-> "none", job |-> <<>>]
        ELSE [server |-> [srv EXCEPT !.waiters =
                                Append(srv.waiters, [queues |-> queues, client |-> c])],
              res |-> "receiver", job |-> <<>>]

\* (mutant) no waiter is ever found
WaiterIdx_None(waiters, queue) == 0

\* waiters.iter().position(|(queues, _)| queues.contains(&queue)); 0 for None
WaiterIdx(waiters, queue) ==
    IF \E i \in 1..Len(waiters) : queue \in waiters[i].queues
    THEN CHOOSE i \in 1..Len(waiters) :
            /\ queue \in waiters[i].queues
            /\ \A j \in 1..(i - 1) : queue \notin waiters[j].queues
    ELSE 0

\* JobServer::put: the server after the call and the waiter the job was sent to
Put(srv, job) ==
    LET idx == WaiterIdx(srv.waiters, job.queue)
    IN  IF idx # 0
        THEN [server |-> [srv EXCEPT !.running = Append(srv.running, job),
                                     !.waiters = Remove(srv.waiters, idx)],
              to |-> <<srv.waiters[idx].client>>]
        ELSE [server |-> [srv EXCEPT !.ready = Append(srv.ready, job)], to |-> <<>>]

\* iter().position(|job| job.id == id); 0 for None
JobIdx(jobs, id) ==
    IF \E i \in 1..Len(jobs) : jobs[i].id = id
    THEN CHOOSE i \in 1..Len(jobs) :
            jobs[i].id = id /\ \A j \in 1..(i - 1) : jobs[j].id # id
    ELSE 0

\* JobServer::delete
Delete(srv, id) ==
    IF JobIdx(srv.ready, id) # 0
    THEN [server |-> [srv EXCEPT !.ready = Remove(srv.ready, JobIdx(srv.ready, id))],
          res |-> TRUE]
    ELSE IF JobIdx(srv.running, id) # 0
    THEN [server |-> [srv EXCEPT !.running = Remove(srv.running, JobIdx(srv.running, id))],
          res |-> TRUE]
    ELSE [server |-> srv, res |-> FALSE]

\* JobServer::abort: the server after the call, what it returned, and the
\* waiter the job was sent to
Abort(srv, id) ==
    LET idx == JobIdx(srv.running, id)
    IN  IF idx = 0 THEN [server |-> srv, res |-> FALSE, to |-> <<>>, job |-> <<>>]
        ELSE LET widx == WaiterIdx(srv.waiters, srv.running[idx].queue)
             IN  IF widx # 0
                 THEN [server |-> [srv EXCEPT !.waiters = Remove(srv.waiters, widx)],
                       res |-> TRUE,
                       to |-> <<srv.waiters[widx].client>>,
                       job |-> <<srv.running[idx]>>]
                 ELSE [server |-> [srv EXCEPT
                                      !.running = Remove(srv.running, idx),
                                      !.ready = Append(srv.ready, srv.running[idx])],
                       res |-> TRUE, to |-> <<>>, job |-> <<>>]

\* ClientHandler { in_progress: Default::default() } in read_next_line
NewClient == [pc |-> "read", in_progress |-> {}, rx |-> <<>>]

\* Sender::send(job) of a waiter: the job is in the receiver of client `to`
Sent(cs, to, job) ==
    IF to = <<>> THEN cs ELSE [cs EXCEPT ![to[1]].rx = job]

\* the job id is now handed to client `to`, or to nobody any more
Handed(h, id, to) ==
    IF to = <<>> THEN [i \in DOMAIN h \ {id} |-> h[i]]
    ELSE (id :> to[1]) @@ h

\* write_next_line(reply).await?: on Err run returns at once
Written(pc, ok) == IF ok THEN pc ELSE "ended"

\* Ok(Request::put { queue, job, pri }) => self.put(queue, job, pri).await?
ClientPut(c, queue, pri, ok) ==
    /\ clients[c].pc = "read"
    /\ NEXT_ID < MaxJobs
    /\ NEXT_ID' = NEXT_ID + 1
    /\ LET job == Job(NEXT_ID, queue, pri)
           r == Put(server, job)
       IN  /\ server' = r.server
           /\ holder' = IF r.to = <<>> THEN holder ELSE Handed(holder, job.id, r.to)
           /\ clients' = [Sent(clients, r.to, <<job>>) EXCEPT
                             ![c].pc = Written("read", ok)]
    /\ UNCHANGED <<p07vars, call, mutex, actor, peer>>

\* Ok(Request::get { queues, wait }) => self.get(queues, wait).await?
ClientGet(c, queues, wait, ok) ==
    /\ clients[c].pc = "read"
    /\ LET r == Get(server, queues, wait, c)
       IN  /\ server' = r.server
           /\ CASE r.res = "none" ->
                     /\ clients' = [clients EXCEPT ![c].pc = Written("read", ok)]
                     /\ UNCHANGED holder
                [] r.res = "some" ->
                     /\ clients' = [clients EXCEPT
                           ![c].pc = Written("read", ok),
                           ![c].in_progress = IF ok THEN @ \cup {r.job[1].id} ELSE @]
                     /\ holder' = Handed(holder, r.job[1].id, <<c>>)
                [] r.res = "receiver" ->
                     /\ ok
                     /\ clients' = [clients EXCEPT ![c].pc = "wait"]
                     /\ UNCHANGED holder
    /\ UNCHANGED NEXT_ID
    /\ UNCHANGED <<p07vars, call, mutex, actor, peer>>

\* Err(receiver) => receiver.await? completes: the job is written to the
\* client and then inserted into in_progress
ClientWake(c, ok) ==
    /\ clients[c].pc = "wait"
    /\ clients[c].rx # <<>>
    /\ clients' = [clients EXCEPT
          ![c].rx = <<>>,
          ![c].pc = Written("read", ok),
          ![c].in_progress = IF ok THEN @ \cup {clients[c].rx[1].id} ELSE @]
    /\ UNCHANGED <<server, NEXT_ID, holder>>
    /\ UNCHANGED <<p07vars, call, mutex, actor, peer>>

\* Ok(Request::abort { id }) => self.abort(id).await?
ClientAbort(c, id, ok) ==
    /\ clients[c].pc = "read"
    /\ IF id \notin clients[c].in_progress
       THEN /\ clients' = [clients EXCEPT ![c].pc = Written("read", ok)]
            /\ UNCHANGED <<server, holder>>
       ELSE LET r == Abort(server, id)
            IN  /\ server' = r.server
                /\ holder' = IF r.res THEN Handed(holder, id, r.to) ELSE holder
                /\ clients' = [Sent(clients, r.to, r.job) EXCEPT
                      ![c].in_progress = @ \ {id},
                      ![c].pc = Written("read", ok)]
    /\ UNCHANGED NEXT_ID
    /\ UNCHANGED <<p07vars, call, mutex, actor, peer>>

\* Ok(Request::delete { id }) => self.delete(id).await?
ClientDelete(c, id, ok) ==
    /\ clients[c].pc = "read"
    /\ LET r == Delete(server, id)
       IN  /\ server' = r.server
           /\ holder' = IF r.res THEN Handed(holder, id, <<>>) ELSE holder
           /\ clients' = [clients EXCEPT
                 ![c].pc = Written("read", ok)]
    /\ UNCHANGED NEXT_ID
    /\ UNCHANGED <<p07vars, call, mutex, actor, peer>>

RECURSIVE AbortAll(_, _, _, _)
\* for id in &self.in_progress { server.abort(*id); } in the order ids
AbortAll(srv, cs, h, ids) ==
    IF ids = <<>> THEN [server |-> srv, clients |-> cs, holder |-> h]
    ELSE LET r == Abort(srv, Head(ids))
         IN  AbortAll(r.server,
                      Sent(cs, r.to, r.job),
                      IF r.res THEN Handed(h, Head(ids), r.to) ELSE h,
                      Tail(ids))

\* the orders in which a HashSet of ids can be iterated
Orders(ids) ==
    {o \in [1..Cardinality(ids) -> ids] : \A i, j \in DOMAIN o : i # j => o[i] # o[j]}

\* Err(_) of read_next_line (end of input or a read error): every job in
\* in_progress is aborted under one lock, then run breaks
ClientEof(c) ==
    /\ clients[c].pc = "read"
    /\ \E ids \in Orders(clients[c].in_progress) :
          LET r == AbortAll(server, clients, holder, ids)
          IN  /\ server' = r.server
              /\ holder' = r.holder
              /\ clients' = [r.clients EXCEPT ![c].pc = "ended"]
    /\ UNCHANGED NEXT_ID
    /\ UNCHANGED <<p07vars, call, mutex, actor, peer>>

\* Err(e) of serde_json::from_str: the error reply is written
ClientInvalid(c, ok) ==
    /\ clients[c].pc = "read"
    /\ clients' = [clients EXCEPT ![c].pc = Written("read", ok)]
    /\ UNCHANGED <<server, NEXT_ID, holder>>
    /\ UNCHANGED <<p07vars, call, mutex, actor, peer>>

InitJobs ==
    /\ sessions = <<>>
    /\ chan = <<>>
    /\ tasks = <<>>
    /\ alive = TRUE
    /\ out = <<>>
    /\ handed = <<>>
    /\ last = [kind |-> "init", session |-> 0]
    /\ hist = <<>>
    /\ call = Idle
    /\ mutex = NoMutex
    /\ actor = <<>>
    /\ peer = <<>>
    /\ server = NoServer
    /\ clients = [c \in Clients |-> NewClient]
    /\ NEXT_ID = 0
    /\ holder = <<>>

NextJobs ==
    \/ \E c \in Clients, queue \in Queues, pri \in Pris, ok \in BOOLEAN :
           ClientPut(c, queue, pri, ok)
    \/ \E c \in Clients, queues \in QueueSets, wait \in BOOLEAN, ok \in BOOLEAN :
           ClientGet(c, queues, wait, ok)
    \/ \E c \in Clients, ok \in BOOLEAN : ClientWake(c, ok)
    \/ \E c \in Clients, id \in 0..MaxJobs, ok \in BOOLEAN : ClientAbort(c, id, ok)
    \/ \E c \in Clients, id \in 0..MaxJobs, ok \in BOOLEAN : ClientDelete(c, id, ok)
    \/ \E c \in Clients : ClientEof(c)
    \/ \E c \in Clients, ok \in BOOLEAN : ClientInvalid(c, ok)

SpecJobs == InitJobs /\ [][NextJobs]_vars

\* ----------------------------------------- specification of Cipher alone
\* cipher specs: the op codes, the terminator 0 and the operand 240
CipherBytes == {0, 1, 2, 3, 4, 5, 240}
CipherSpecs == UNION {[1..n -> CipherBytes] : n \in 0..MaxSpec}
Offsets == {0, 255, 256, 1000}
InputBytes == {0, 1, 104, 127, 128, 255}
Messages == UNION {[1..n -> {0, 104, 255}] : n \in 0..MaxMsg}

\* Cipher::new(bytes)
NewCipher ==
    /\ call.fn = "cipher" /\ call.stage = 0
    /\ call' = [call EXCEPT !.stage = 1, !.cipher = CipherNew(call.in)]
    /\ UNCHANGED <<p07vars, mutex, actor, peer, p09vars>>

\* cipher.encode_one(off, b)
CallEncodeOne(off, b) ==
    /\ call.fn = "cipher" /\ call.stage = 1 /\ call.cipher.res = "ok"
    /\ call' = [call EXCEPT !.stage = 2, !.what = "one", !.off = off, !.msg = b,
                            !.enc = Ok(EncodeOne(call.cipher.val, off, b))]
    /\ UNCHANGED <<p07vars, mutex, actor, peer, p09vars>>

\* cipher.decode_one(off, cipher.encode_one(off, b).unwrap())
CallDecodeOne ==
    /\ call.fn = "cipher" /\ call.stage = 2 /\ call.what = "one"
    /\ call' = [call EXCEPT !.stage = 3,
                            !.dec = Ok(DecodeOne(call.cipher.val, call.off, call.enc.val))]
    /\ UNCHANGED <<p07vars, mutex, actor, peer, p09vars>>

\* cipher.encode(off, m)
CallEncode(off, m) ==
    /\ call.fn = "cipher" /\ call.stage = 1 /\ call.cipher.res = "ok"
    /\ call' = [call EXCEPT !.stage = 2, !.what = "msg", !.off = off, !.msg = m,
                            !.enc = Encode(call.cipher.val, off, m)]
    /\ UNCHANGED <<p07vars, mutex, actor, peer, p09vars>>

\* cipher.decode(off, &cipher.encode(off, m)?)
CallDecode ==
    /\ call.fn = "cipher" /\ call.stage = 2 /\ call.what = "msg"
    /\ call.enc.res = "ok"
    /\ call' = [call EXCEPT !.stage = 3,
                            !.dec = Decode(call.cipher.val, call.off, call.enc.val)]
    /\ UNCHANGED <<p07vars, mutex, actor, peer, p09vars>>

InitCipher ==
    /\ sessions = <<>>
    /\ chan = <<>>
    /\ tasks = <<>>
    /\ alive = TRUE
    /\ out = <<>>
    /\ handed = <<>>
    /\ last = [kind |-> "init", session |-> 0]
    /\ hist = <<>>
    /\ call \in {[fn |-> "cipher", in |-> bytes, stage |-> 0, cipher |-> Err,
                  what |-> "none", off |-> 0, msg |-> 0, enc |-> Err, dec |-> Err]
                 : bytes \in CipherSpecs}
    /\ mutex = NoMutex
    /\ actor = <<>>
    /\ peer = <<>>
    /\ server = NoServer
    /\ clients = <<>>
    /\ NEXT_ID = 0
    /\ holder = <<>>

NextCipher ==
    \/ NewCipher
    \/ \E off \in Offsets, b \in InputBytes : CallEncodeOne(off, b)
    \/ CallDecodeOne
    \/ \E off \in Offsets, m \in Messages : CallEncode(off, m)
    \/ CallDecode

SpecCipher == InitCipher /\ [][NextCipher]_vars

\* ------------------------------------------------------------------ claims
\* C1: a DATA(id, pos, data) frame for a registered session that is not closing,
\* with pos equal to the inbound length, appends data to the inbound stream,
\* advances the delivered length by Len(data), hands exactly data to add, and
\* emits exactly one ACK(id, new length), to the session's address.
C1_InOrderData ==
    [][(last'.kind = "data") =>
       \A session \in Ids :
          (/\ session \in DOMAIN sessions
           /\ ~sessions[session].should_close)
          =>
          \A pos \in {Len(sessions[session].data)}, data \in Payloads,
             addr \in Addrs, ok \in BOOLEAN :
          RecvData(session, pos, data, addr, ok)
          => (/\ sessions'[session].data = sessions[session].data \o data
              /\ Len(sessions'[session].data) = Len(sessions[session].data) + Len(data)
              /\ handed' = <<data>>
              /\ out' = <<Datagram(Ack(session, pos + Len(data)),
                                   sessions[session].addr)>>)]_vars

\* a non-empty in-order DATA frame was just processed and acknowledged
C1_Witness ==
    /\ last.kind = "data"
    /\ Len(handed) = 1
    /\ Len(handed[1]) > 0
    /\ Len(out) = 1
    /\ out[1].msg = Ack(last.session, Len(sessions[last.session].data))

\* C2: a DATA(id, pos, data) frame for a registered session that is not closing,
\* with pos different from the inbound length, changes nothing of the session
\* (the payload is kept nowhere), hands nothing to add, and emits exactly one
\* ACK(id, unchanged inbound length).
C2_OutOfOrderData ==
    [][(last'.kind = "data") =>
       \A session \in Ids, pos \in Positions :
          (/\ session \in DOMAIN sessions
           /\ ~sessions[session].should_close
           /\ pos # Len(sessions[session].data)
           /\ \E data \in Payloads, addr \in Addrs, ok \in BOOLEAN :
                 RecvData(session, pos, data, addr, ok))
          => (/\ sessions' = sessions
              /\ chan' = chan
              /\ tasks' = tasks
              /\ hist' = hist
              /\ handed' = <<>>
              /\ out' = <<Datagram(Ack(session, Len(sessions[session].data)),
                                   sessions[session].addr)>>)]_vars

\* a DATA frame was just answered with the ACK of a non-zero delivered length
\* while nothing was handed to add: the frame was out of order
C2_Witness ==
    /\ last.kind = "data"
    /\ handed = <<>>
    /\ Len(out) = 1
    /\ out[1].msg.kind = "ack"
    /\ out[1].msg.len = Len(sessions[last.session].data)
    /\ out[1].msg.len > 0

\* C3: over every sequence of received frames (duplicates, reorderings, a
\* CLOSE-triggered flush included) the bytes at any inbound offset are handed to
\* add at most once and are put into a line for the channel at most once.
C3_ExactlyOnce ==
    \A session \in DOMAIN hist :
        /\ \A i \in 1..Len(hist[session].handed) : hist[session].handed[i] <= 1
        /\ \A i \in 1..Len(hist[session].consumed) : hist[session].consumed[i] <= 1

\* a DATA frame arrives after the CLOSE-triggered flush of a stream holding a
\* full line and a fragment, every byte of which was consumed once
C3_Witness ==
    /\ last.kind = "data"
    /\ \E session \in DOMAIN sessions :
        /\ sessions[session].should_close
        /\ sessions[session].full_lines > 0
        /\ Len(sessions[session].data) = MaxData
        /\ hist[session].handed = [i \in 1..MaxData |-> 1]
        /\ hist[session].consumed = [i \in 1..MaxData |-> 1]

\* C4: CONNECT(id) for an id not in the registry inserts a session with the
\* datagram's source as peer address, nothing delivered, nothing acknowledged,
\* nothing pending, should_close false, and emits exactly one ACK(id, 0) to the sender.
C4_ConnectNew ==
    [][(last'.kind = "connect") =>
       \A session \in Ids, addr \in Addrs, ok \in BOOLEAN :
          (/\ session \notin DOMAIN sessions
           /\ RecvConnect(session, addr, ok))
          => (/\ DOMAIN sessions' = DOMAIN sessions \cup {session}
              /\ sessions'[session].addr = addr
              /\ sessions'[session].data = <<>>
              /\ sessions'[session].ack = 0
              /\ sessions'[session].pending = <<>>
              /\ sessions'[session].should_close = FALSE
              /\ out' = <<Datagram(Ack(session, 0), addr)>>)]_vars

\* a CONNECT from peerB was just processed and its session is in the Open state
C4_Witness ==
    /\ last.kind = "connect"
    /\ last.session \in DOMAIN sessions
    /\ sessions[last.session].addr = "peerB"
    /\ sessions[last.session].data = <<>>
    /\ sessions[last.session].pending = <<>>
    /\ out = <<Datagram(Ack(last.session, 0), "peerB")>>
    /\ tasks[last.session] = NewTask(last.session, "peerB")

\* C5: CONNECT(id) for an id in the registry emits ACK(id, 0) and leaves the
\* session (delivered bytes, inbound stream, ack, pending, should_close, peer
\* address), its channel and its task as they were; no task is started.
C5_ConnectAgain ==
    [][(last'.kind = "connect") =>
       \A session \in Ids, addr \in Addrs, ok \in BOOLEAN :
          (/\ session \in DOMAIN sessions
           /\ RecvConnect(session, addr, ok))
          => (/\ sessions' = sessions
              /\ chan' = chan
              /\ tasks' = tasks
              /\ hist' = hist
              /\ handed' = <<>>
              /\ out' = <<Datagram(Ack(session, 0), addr)>>)]_vars

\* a CONNECT was just processed for a session that has delivered data, holds a
\* pending segment and is marked for closing
C5_Witness ==
    /\ last.kind = "connect"
    /\ last.session \in DOMAIN sessions
    /\ Len(sessions[last.session].data) > 0
    /\ sessions[last.session].pending # <<>>
    /\ sessions[last.session].should_close
    /\ out = <<Datagram(Ack(last.session, 0), "peerB")>>

\* C6: ACK(id, length) for a registered session with ack < length <= sent bytes
\* sets ack to length and leaves pending exactly the previously pending segments
\* that end after length, in order; and a segment an ACK dropped never is in
\* pending (so never is retransmitted) again.
C6_AckAdvances ==
    [][/\ (last'.kind = "ack") =>
          \A session \in Ids, len \in Positions, addr \in Addrs, ok \in BOOLEAN :
             (/\ session \in DOMAIN sessions
              /\ sessions[session].ack < len
              /\ len <= SentBytes(session)
              /\ RecvAck(session, len, addr, ok))
             => (/\ session \in DOMAIN sessions'
                 /\ sessions'[session].ack = len
                 /\ sessions'[session].pending =
                        SelectSeq(sessions[session].pending,
                                  LAMBDA m : m.pos + Len(m.data) > len))
       /\ \A session \in DOMAIN sessions' :
             \A i \in 1..Len(sessions'[session].pending) :
                sessions'[session].pending[i].pos \notin hist'[session].dropped]_vars

\* an ACK was just processed that dropped a pending segment and kept another
C6_Witness ==
    /\ last.kind = "ack"
    /\ last.session \in DOMAIN sessions
    /\ sessions[last.session].ack > 0
    /\ sessions[last.session].pending # <<>>
    /\ hist[last.session].dropped # {}

\* C7: ACK(id, length) for a registered session with length > sent bytes emits
\* CLOSE(id) and removes the session from the registry.
C7_ForceClose ==
    [][(last'.kind = "ack") =>
       \A session \in Ids, len \in Positions, addr \in Addrs, ok \in BOOLEAN :
          (/\ session \in DOMAIN sessions
           /\ len > SentBytes(session)
           /\ RecvAck(session, len, addr, ok))
          => (/\ Len(out') = 1
              /\ out'[1].msg = Close(session)
              /\ session \notin DOMAIN sessions')]_vars

\* C8: in every reachable state every registered session has ack <= sent bytes.
C8_AckWithinSent ==
    \A session \in DOMAIN sessions : sessions[session].ack <= SentBytes(session)

\* C9: in every step of the receive loop and of the sender task, a session that
\* stays in the registry keeps or increases its delivered length and its ack.
C9_Monotonic ==
    [][\A session \in DOMAIN sessions :
          session \in DOMAIN sessions' =>
             /\ Len(sessions'[session].data) >= Len(sessions[session].data)
             /\ sessions'[session].ack >= sessions[session].ack]_vars

\* a sender task step on a session whose delivered length and ack have both grown
C9_Witness ==
    /\ last.kind = "push"
    /\ sessions[last.session].ack > 0
    /\ Len(sessions[last.session].data) > sessions[last.session].ack

\* C10: CLOSE(id) for a registered session with ack = sent bytes emits CLOSE(id)
\* and removes the session from the registry.
C10_GracefulClose ==
    [][(last'.kind = "close") =>
       \A session \in Ids, addr \in Addrs, ok \in BOOLEAN :
          (/\ session \in DOMAIN sessions
           /\ sessions[session].ack = SentBytes(session)
           /\ RecvClose(session, addr, ok))
          => (/\ Len(out') = 1
              /\ out'[1].msg = Close(session)
              /\ session \notin DOMAIN sessions')]_vars

\* C11: CLOSE(id) for a registered session with ack < sent bytes emits nothing,
\* leaves should_close true, pending as it was and the session registered; the
\* first such CLOSE hands the final fragment of the inbound stream to the
\* channel as a line without newline, and after the step every inbound byte
\* has been put into a line exactly once (a repeated CLOSE flushes nothing more).
C11_DeferredClose ==
    [][(last'.kind = "close") =>
       \A session \in Ids, addr \in Addrs, ok \in BOOLEAN :
          (/\ session \in DOMAIN sessions
           /\ sessions[session].ack < SentBytes(session)
           /\ RecvClose(session, addr, ok))
          => (/\ out' = <<>>
              /\ session \in DOMAIN sessions'
              /\ sessions'[session].should_close
              /\ sessions'[session].pending = sessions[session].pending
              /\ sessions'[session].data = sessions[session].data
              /\ sessions'[session].ack = sessions[session].ack
              /\ tasks' = tasks
              /\ hist'[session].consumed =
                     [i \in 1..Len(sessions[session].data) |-> 1]
              /\ IF sessions[session].should_close
                 THEN chan' = chan /\ handed' = <<>>
                 ELSE LET pieces == SplitNL(sessions[session].data)
                      IN  /\ handed' = <<(<<>>)>>
                          /\ chan' = [chan EXCEPT ![session] =
                                 Append(@, Reverse(pieces[Len(pieces)]))])]_vars

\* a CLOSE was just deferred: nothing emitted, a segment still pending, and the
\* newline-less fragment "x" is the line the flush put into the channel
C11_Witness ==
    /\ last.kind = "close"
    /\ out = <<>>
    /\ handed = <<(<<>>)>>
    /\ last.session \in DOMAIN sessions
    /\ sessions[last.session].should_close
    /\ sessions[last.session].pending # <<>>
    /\ chan[last.session] = <<(<<120>>)>>

\* C12: for a session marked for closing, a step of the receive loop that is no
\* protocol violation emits CLOSE(id) only if afterwards ack = sent bytes (the
\* flushed fragment included, whether still in the channel, being chunked or
\* pending), and the ACK that brings ack to sent bytes emits CLOSE(id).
C12_CloseWhenAllAcked ==
    [][/\ (last'.kind = "ack") =>
          \A session \in Ids, len \in Positions, addr \in Addrs, ok \in BOOLEAN :
             (/\ session \in DOMAIN sessions
              /\ sessions[session].should_close
              /\ len <= SentBytes(session)
              /\ RecvAck(session, len, addr, ok))
             => (/\ out' # <<>> => sessions'[session].ack = SentBytes(session)
                 /\ (len > sessions[session].ack /\ len = SentBytes(session))
                        => out' = <<Datagram(Close(session), addr)>>)
       /\ (last'.kind = "close") =>
          \A session \in Ids, addr \in Addrs, ok \in BOOLEAN :
             (/\ session \in DOMAIN sessions
              /\ sessions[session].should_close
              /\ RecvClose(session, addr, ok))
             => (out' # <<>> => sessions'[session].ack = SentBytes(session))]_vars

\* C13: CLOSE(id) for an id with no session in the registry emits exactly one
\* CLOSE(id), to the datagram's source, and creates no session and no task.
C13_CloseUnknown ==
    [][(last'.kind = "close") =>
       \A session \in Ids, addr \in Addrs, ok \in BOOLEAN :
          (/\ session \notin DOMAIN sessions
           /\ RecvClose(session, addr, ok))
          => (/\ out' = <<Datagram(Close(session), addr)>>
              /\ sessions' = sessions
              /\ tasks' = tasks
              /\ chan' = chan
              /\ handed' = <<>>)]_vars

\* a CLOSE from peerB for an id without session was just answered with CLOSE
C13_Witness ==
    /\ last.kind = "close"
    /\ last.session \notin DOMAIN sessions
    /\ last.session \notin DOMAIN tasks
    /\ out = <<Datagram(Close(last.session), "peerB")>>

\* C14: a DATA or ACK frame for an id with no session in the registry emits
\* nothing, creates no session and no task, and hands nothing to add.
C14_UnknownIgnored ==
    [][/\ (last'.kind = "data") =>
          \A session \in Ids :
             (/\ session \notin DOMAIN sessions
              /\ \E pos \in Positions, data \in Payloads, addr \in Addrs, ok \in BOOLEAN :
                    RecvData(session, pos, data, addr, ok))
             => (/\ out' = <<>>
                 /\ handed' = <<>>
                 /\ sessions' = sessions
                 /\ tasks' = tasks
                 /\ chan' = chan
                 /\ alive' = alive)
       /\ (last'.kind = "ack") =>
          \A session \in Ids, len \in Positions, addr \in Addrs, ok \in BOOLEAN :
             (/\ session \notin DOMAIN sessions
              /\ RecvAck(session, len, addr, ok))
             => (/\ out' = <<>>
                 /\ handed' = <<>>
                 /\ sessions' = sessions
                 /\ tasks' = tasks
                 /\ chan' = chan
                 /\ alive' = alive)]_vars

\* a DATA frame for an id without session was just processed: nothing emitted
C14_Witness ==
    /\ last.kind = "data"
    /\ last.session \notin DOMAIN sessions
    /\ out = <<>>
    /\ handed = <<>>
    /\ alive

\* C15: a DATA frame, whatever its pos, for a session marked for closing emits
\* nothing, leaves the session and its channel unchanged and hands nothing to add.
C15_DataWhileClosing ==
    [][(last'.kind = "data") =>
       \A session \in Ids :
          (/\ session \in DOMAIN sessions
           /\ sessions[session].should_close
           /\ \E pos \in Positions, data \in Payloads, addr \in Addrs, ok \in BOOLEAN :
                 RecvData(session, pos, data, addr, ok))
          => (/\ out' = <<>>
              /\ handed' = <<>>
              /\ sessions' = sessions
              /\ chan' = chan
              /\ tasks' = tasks
              /\ hist' = hist
              /\ alive' = alive)]_vars

\* a DATA frame was just processed for a session marked for closing whose
\* inbound stream is shorter than the cap: nothing emitted, nothing handed
C15_Witness ==
    /\ last.kind = "data"
    /\ last.session \in DOMAIN sessions
    /\ sessions[last.session].should_close
    /\ Len(sessions[last.session].data) < MaxData
    /\ out = <<>>
    /\ handed = <<>>

\* C16: a session that was created is in the registry exactly as long as it is
\* not the case that should_close is set and ack = sent bytes: no registered
\* session has both, and a step that removes a session leaves or finds it so.
C16_Termination ==
    [][/\ \A session \in DOMAIN sessions' :
             ~(/\ sessions'[session].should_close
               /\ sessions'[session].ack = SentBytes(session)')
       /\ \A session \in DOMAIN sessions \ DOMAIN sessions' :
             sessions[session].should_close]_vars

\* C17: once the server has emitted CLOSE(id), the id is unknown: the next DATA
\* or ACK for it emits nothing and hands nothing to add, and the next CONNECT
\* inserts a fresh session and starts the outbound positions again from 0.
C17_ClosedIsUnknown ==
    [][\A session \in Ids :
          (\E i \in 1..Len(out) :
              out[i].msg = Close(session) /\ last.kind \in {"ack", "close"})
          => (/\ (last'.kind \in {"data", "ack"} /\ last'.session = session)
                    => (out' = <<>> /\ handed' = <<>>)
              /\ (last'.kind = "connect" /\ last'.session = session)
                    => (/\ sessions'[session] =
                              [id |-> session, addr |-> sessions'[session].addr,
                               data |-> <<>>, full_lines |-> 0, ack |-> 0,
                               pending |-> <<>>, should_close |-> FALSE]
                        /\ tasks'[session].pos = 0
                        /\ chan'[session] = <<>>))]_vars

\* C18: a retransmission tick of a registered session emits each pending
\* segment exactly once, in order, unaltered, under the session's id, to the
\* session's recorded address, and changes nothing of the session, its channel
\* or its task.
C18_TickResends ==
    [][(last'.kind = "tick") =>
       \A session \in Ids :
          (session \in DOMAIN sessions /\ TaskTick(session))
          => (/\ Len(out') = Len(sessions[session].pending)
              /\ \A i \in 1..Len(out') :
                    /\ out'[i].msg = sessions[session].pending[i]
                    /\ out'[i].msg.kind = "data"
                    /\ out'[i].msg.session = session
                    /\ out'[i].to = sessions[session].addr
              /\ sessions' = sessions
              /\ chan' = chan
              /\ tasks' = tasks
              /\ hist' = hist
              /\ handed' = <<>>)]_vars

\* a tick just resent two pending segments to peerB
C18_Witness ==
    /\ last.kind = "tick"
    /\ Len(out) = 2
    /\ out[1].to = "peerB"
    /\ out[1].msg.pos < out[2].msg.pos
    /\ sessions[last.session].pending = <<out[1].msg, out[2].msg>>

\* C19: the retransmission task of a session ends on its own once the session
\* is closed: at the first tick after the server has emitted CLOSE(id) for a
\* registered session, the task of id is gone.
C19_TaskExits ==
    [][\A session \in Ids :
          (/\ last.kind \in {"ack", "close"}
           /\ \E i \in 1..Len(out) : out[i].msg = Close(session)
           /\ session \in DOMAIN tasks
           /\ last'.kind = "tick"
           /\ last'.session = session)
          => session \notin DOMAIN tasks']_vars

\* C20: with an honest peer, a fair task and a fair interval, every registered
\* session is eventually fully acknowledged: its ack equals the bytes queued
\* outbound and nothing is pending.
C20_ReliableDelivery ==
    \A session \in Ids :
        (session \in DOMAIN sessions)
            ~> (/\ session \in DOMAIN sessions
                /\ sessions[session].ack = SentBytes(session)
                /\ sessions[session].pending = <<>>)

\* C21: for every frame value, serialize succeeds and parse of the result
\* gives the frame back.
C21_EncodeDecode ==
    call.fn = "encode" =>
        /\ call.stage >= 1 => call.mid.res = "ok"
        /\ call.stage = 2 => call.back = Ok(call.in)

\* C22: for every wire string parse accepts, serialize of the parsed frame
\* gives the wire string back.
C22_DecodeEncode ==
    (call.fn = "decode" /\ call.stage = 2) => call.back = Ok(call.in)

RECURSIVE Scan(_)
\* the reference of C30: one left-to-right pass that takes '\\' '\\' as '\\',
\* '\\' '/' as '/', any other byte but '\\' and '/' as itself, and rejects the rest
Scan(p) ==
    IF p = <<>> THEN Ok(<<>>)
    ELSE IF p[1] = Backslash
    THEN IF Len(p) >= 2 /\ p[2] \in {Backslash, Slash}
         THEN LET r == Scan(SubSeq(p, 3, Len(p)))
              IN  IF r.res = "ok" THEN Ok(<<p[2]>> \o r.val) ELSE Err
         ELSE Err
    ELSE IF p[1] = Slash THEN Err
    ELSE LET r == Scan(Tail(p))
         IN  IF r.res = "ok" THEN Ok(<<p[1]>> \o r.val) ELSE Err

\* C30: the payload decoder of parse accepts exactly the payloads the
\* left-to-right scanner accepts and returns the same bytes on them.
C30_DecoderIsScanner ==
    (call.fn = "payload" /\ call.stage = 1) => call.mid = Scan(call.in)

\* a payload in which an escaped backslash is followed by an escaped slash
\* was decoded to the two bytes
C30_Witness ==
    /\ call.fn = "payload"
    /\ call.stage = 1
    /\ call.in = <<Backslash, Backslash, Backslash, Slash>>
    /\ call.mid = Ok(<<Backslash, Slash>>)

\* C23: a datagram that is not a well-formed frame emits nothing, changes no
\* session, channel or task, and leaves the receive loop running.
C23_MalformedDropped ==
    [][(last'.kind = "malformed") =>
       \A wire \in Malformed :
          RecvMalformed(wire)
          => (/\ out' = <<>>
              /\ handed' = <<>>
              /\ sessions' = sessions
              /\ chan' = chan
              /\ tasks' = tasks
              /\ alive')]_vars

\* C24: every DATA datagram the server emits, first transmission or
\* retransmission, is at most 1000 bytes long once escaped and framed.
C24_DatagramSize ==
    \A i \in 1..Len(out) :
        out[i].msg.kind = "data" =>
            /\ Serialize(out[i].msg).res = "ok"
            /\ Len(Serialize(out[i].msg).val) <= 1000

RECURSIVE Flat(_)
\* the concatenation of a sequence of byte strings
Flat(seqs) == IF seqs = <<>> THEN <<>> ELSE Head(seqs) \o Flat(Tail(seqs))

\* the payloads of a sequence of segments
PayloadsOf(segs) == [i \in 1..Len(segs) |-> segs[i].data]

\* the segments made so far of session's outbound stream: consecutive
\* positions from 0, in order, each of 1..512 bytes, and with what is still
\* being chunked or queued they spell the byte strings add has queued
C27_Segments(session) ==
    LET segs == sessions[session].pending
        t == tasks[session]
    IN  /\ \A i \in 1..Len(segs) :
              /\ segs[i].kind = "data"
              /\ segs[i].session = session
              /\ segs[i].pos = SumLen(PayloadsOf(SubSeq(segs, 1, i - 1)))
              /\ Len(segs[i].data) \in 1..ChunkSize
        /\ t.pos = SumLen(PayloadsOf(segs))
        /\ \A i \in 1..Len(t.chunks) : Len(t.chunks[i]) \in 1..ChunkSize

C25_CipherRoundTrip ==
    (call.fn = "cipher" /\ call.stage = 3) => call.dec = Ok(call.msg)

\* add 240, add the position: the message <<104, 255>> at offset 1000 was
\* encoded to other bytes and decoded back
C25_Witness ==
    /\ call.fn = "cipher"
    /\ call.stage = 3
    /\ call.what = "msg"
    /\ call.in = <<4, 240, 5, 0>>
    /\ call.off = 1000
    /\ call.msg = <<104, 255>>
    /\ call.enc.val # call.msg
    /\ call.dec = Ok(call.msg)

\* the vectors of tests::example_ciphers and tests::decode
CipherVectors ==
    /\ Encode(CipherNew(<<2, 1, 1, 0>>).val, 0, <<104, 101, 108, 108, 111>>)
          = Ok(<<150, 38, 182, 182, 118>>)
    /\ Encode(CipherNew(<<5, 5, 0>>).val, 0, <<104, 101, 108, 108, 111>>)
          = Ok(<<104, 103, 112, 114, 119>>)
    /\ Encode(CipherNew(<<2, 123, 5, 1, 0>>).val, 7, <<51, 120, 32, 114, 97, 116, 10>>)
          = Ok(<<242, 208, 38, 200, 164, 216, 126>>)

\* C26: with an honest peer, whenever the sender task is waiting in select!,
\* no pending segment lies wholly at or below the acknowledged length.
C26_NoAckedPending ==
    \A session \in DOMAIN sessions :
        tasks[session].pc = "select" =>
            \A i \in 1..Len(sessions[session].pending) :
                sessions[session].pending[i].pos +
                    Len(sessions[session].pending[i].data) > sessions[session].ack

\* C28: an ACK(id, len) for a registered session with len at or below its
\* ack emits nothing and changes nothing, also when the session is marked for
\* closing and nothing is pending.
C28_StaleAck ==
    [][(last'.kind = "ack") =>
       \A session \in Ids, len \in Positions, addr \in Addrs, ok \in BOOLEAN :
          (/\ session \in DOMAIN sessions
           /\ len <= sessions[session].ack
           /\ RecvAck(session, len, addr, ok))
          => (/\ out' = <<>>
              /\ handed' = <<>>
              /\ sessions' = sessions
              /\ chan' = chan
              /\ tasks' = tasks
              /\ hist' = hist
              /\ alive' = alive)]_vars

\* an ACK was just processed without reply for a session that is marked for
\* closing, has nothing pending and a positive ack: it was a stale one
C28_Witness ==
    /\ last.kind = "ack"
    /\ last.session \in DOMAIN sessions
    /\ sessions[last.session].should_close
    /\ sessions[last.session].pending = <<>>
    /\ sessions[last.session].ack > 0
    /\ out = <<>>
    /\ alive

\* C29: a CONNECT or CLOSE processed right after a frame of the same kind for
\* the same id, and an ACK that the ACK before it has settled (its length is
\* at or below the ack, or beyond the bound, or the id is unknown), changes
\* no session, channel or task and hands nothing to add.
C29_Idempotent ==
    [][\A session \in Ids :
          /\ (/\ last.kind \in {"connect", "close"}
              /\ last' = last
              /\ last.session = session)
             => (/\ sessions' = sessions
                 /\ chan' = chan
                 /\ tasks' = tasks
                 /\ hist' = hist
                 /\ handed' = <<>>)
          /\ (last.kind = "ack" /\ last' = last /\ last.session = session)
             => \A len \in Positions, addr \in Addrs, ok \in BOOLEAN :
                   (/\ \/ session \notin DOMAIN sessions
                       \/ len <= sessions[session].ack
                       \/ len > Len(sessions[session].data)
                    /\ RecvAck(session, len, addr, ok))
                   => (/\ sessions' = sessions
                       /\ chan' = chan
                       /\ tasks' = tasks
                       /\ hist' = hist
                       /\ handed' = <<>>)]_vars

\* a CLOSE was just processed for a session already marked for closing whose
\* last fragment is in the channel: nothing handed to add, nothing emitted
C29_Witness ==
    /\ last.kind = "close"
    /\ last.session \in DOMAIN sessions
    /\ sessions[last.session].should_close
    /\ sessions[last.session].full_lines = 0
    /\ chan[last.session] = <<Reverse(sessions[last.session].data)>>
    /\ handed = <<>>
    /\ out = <<>>

\* the reference of C31: a numeric field is a non-empty string of decimal
\* digits, with or without a sign in front
C31_Numeric(f) ==
    LET d == IF f # <<>> /\ f[1] = Plus THEN Tail(f) ELSE f
    IN  d # <<>> /\ \A i \in 1..Len(d) : d[i] \in Zero..(Zero + 9)

\* the defects C31 lists, read off the wire string w: no trailing '/', none
\* of the four prefixes, a field missing, a numeric field empty or not a
\* number, a payload that the left-to-right scanner rejects
C31_Defective(w) ==
    \/ w = <<>>
    \/ w[Len(w)] # Slash
    \/ ~\E p \in {PConnect, PAck, PClose, PData} : HasPrefix(w, p)
    \/ \E p \in {PConnect, PClose} :
          /\ HasPrefix(w, p)
          /\ LET b == SubSeq(w, Len(p) + 1, Len(w))
             IN  b = <<>> \/ ~C31_Numeric(SubSeq(b, 1, Len(b) - 1))
    \/ /\ HasPrefix(w, PAck)
       /\ LET b == SubSeq(w, Len(PAck) + 1, Len(w))
              f == IF b = <<>> THEN <<>> ELSE SplitBy(SubSeq(b, 1, Len(b) - 1), Slash)
          IN  Len(f) < 2 \/ ~C31_Numeric(f[1]) \/ ~C31_Numeric(f[2])
    \/ /\ HasPrefix(w, PData)
       /\ LET b == SubSeq(w, Len(PData) + 1, Len(w))
              p1 == Position(b, Slash)
              r1 == SubSeq(b, p1 + 1, Len(b))
              p2 == Position(r1, Slash)
              r2 == SubSeq(r1, p2 + 1, Len(r1))
          IN  \/ p1 = 0
              \/ ~C31_Numeric(SubSeq(b, 1, p1 - 1))
              \/ p2 = 0
              \/ ~C31_Numeric(SubSeq(r1, 1, p2 - 1))
              \/ r2 = <<>>
              \/ Scan(SubSeq(r2, 1, Len(r2) - 1)).res # "ok"

\* C31: parse returns an error value, neither a frame nor a panic, for every
\* input that lacks the trailing '/', has an unknown prefix, has a missing,
\* empty or non-numeric numeric field, or has an inconsistently escaped payload.
C31_ParseErrors ==
    (call.fn = "decode" /\ call.stage >= 1 /\ C31_Defective(call.in))
        => call.mid.res = "err"

\* parse never accepts such an input: what is left of C31 without the panic
C31_NeverAccepted ==
    (call.fn = "decode" /\ call.stage >= 1 /\ C31_Defective(call.in))
        => call.mid.res # "ok"

\* C32: a frame handler whose send_to fails leaves the receive loop running
\* (the failure costs that one datagram only): whatever the handler and its
\* inputs, the step taken with a failing send ends with main still alive.
C32_SendFailure ==
    [][(last'.kind \in {"ack", "close", "connect", "data"}) =>
       \A session \in Ids, addr \in Addrs :
          /\ RecvConnect(session, addr, FALSE) => alive'
          /\ RecvClose(session, addr, FALSE) => alive'
          /\ \A len \in Positions : RecvAck(session, len, addr, FALSE) => alive'
          /\ \A pos \in Positions, data \in Payloads :
                RecvData(session, pos, data, addr, FALSE) => alive']_vars

\* the actor that holds the mutex can take its next step
C33_HolderRuns ==
    mutex.owner # <<>> =>
        IF mutex.owner[1] = Main THEN ENABLED MainStep
        ELSE ENABLED TaskStep(mutex.owner[1])

\* C33: no actor blocks for ever on the sessions lock. At every moment the
\* holder of the lock can take its next step (it waits for nothing a waiter
\* of the lock must provide) and a free lock with waiters can be granted;
\* every acquisition is followed by a release, and every actor that waits
\* for the lock gets it (or main has returned).
C33_NoLockBlock ==
    /\ [](alive => /\ C33_HolderRuns
                   /\ (mutex.owner # <<>> => ~C33_Waits(mutex.owner[1]))
                   /\ (mutex.owner = <<>> /\ mutex.queue # <<>>
                          => ENABLED (MainStep \/ TaskStep(Head(mutex.queue)))))
    /\ \A a \in {Main} \cup LockIds :
          /\ (mutex.owner = <<a>>) ~> (mutex.owner # <<a>>)
          /\ C33_Waits(a) ~> (mutex.owner = <<a>> \/ ~alive)

\* the task of session 1 holds the lock in its resend loop while the receive
\* loop and the task of session 2 wait for it
C33_Witness ==
    /\ alive
    /\ mutex.owner = <<1>>
    /\ actor[1].pc = "resend"
    /\ actor[1].n > 0
    /\ mutex.queue = <<Main, 2>>

\* what C34 lists of session b is the same after the step: its presence in
\* the registry, its entry (inbound stream, acknowledged length, pending
\* segments, should_close, address), its channel and its task
C34_Same(b) ==
    /\ (b \in DOMAIN sessions') = (b \in DOMAIN sessions)
    /\ b \in DOMAIN sessions =>
          /\ sessions'[b] = sessions[b]
          /\ chan'[b] = chan[b]
          /\ tasks'[b] = tasks[b]
          /\ hist'[b].handed = hist[b].handed

\* C34: handling a frame addressed to session a, and a step of a's task,
\* change nothing of any other session b and hand nothing to b's adapter.
C34_Isolation ==
    [][\A a \in TwoIds :
          (C34_FrameFor(a) \/ C34_TaskOf(a)) => \A b \in TwoIds \ {a} : C34_Same(b)]_vars

\* both sessions are registered with data received, session 2 has a segment
\* pending, and the last step appended a DATA frame to session 1
C34_Witness ==
    /\ last = [kind |-> "data", session |-> 1]
    /\ handed # <<>>
    /\ 1 \in DOMAIN sessions
    /\ sessions[1].data # <<>>
    /\ sessions[2].data = Bystander
    /\ sessions[2].pending # <<>>

\* C35: when every DATA frame of a session carries the bytes of one stream S
\* at its offset, then whatever frames arrive in whatever order and however
\* often, the inbound stream is a prefix of S, every offset below its length
\* was handed to add exactly once and none above, and each call of add gets
\* the bytes of S that follow the inbound stream.
C35_InOrderStream ==
    /\ [](\A session \in DOMAIN sessions :
            LET data == sessions[session].data
            IN  /\ Len(data) <= Len(peer[session])
                /\ data = SubSeq(peer[session], 1, Len(data))
                /\ hist[session].handed = [i \in 1..Len(data) |-> 1])
    /\ [][(last'.kind = "data" /\ handed' # <<>>) =>
            LET session == last'.session
                old == Len(sessions[session].data)
            IN  /\ Len(handed') = 1
                /\ sessions'[session].data = sessions[session].data \o handed'[1]
                /\ handed'[1] = SubSeq(peer[session], old + 1, old + Len(handed'[1]))]_vars

\* the whole stream has arrived, the last frame applied carrying all of it
\* but the first byte
C35_Witness ==
    /\ 1 \in DOMAIN sessions
    /\ sessions[1].data = peer[1]
    /\ last = [kind |-> "data", session |-> 1]
    /\ handed = <<SubSeq(peer[1], 2, Len(peer[1]))>>
    /\ hist[1].handed = [i \in 1..Len(peer[1]) |-> 1]

\* the offset just past the last newline of data, 0 when it has none
C36_PastLastNL(data) ==
    IF \E i \in 1..Len(data) : data[i] = NL
    THEN CHOOSE i \in 1..Len(data) :
            data[i] = NL /\ \A j \in (i + 1)..Len(data) : data[j] # NL
    ELSE 0

\* C36: the bytes handed to the sender channel so far are never more than
\* the inbound stream holds; they are as many as the inbound stream has up to
\* and with its last newline while should_close is false, and as many as the
\* whole inbound stream once the flush of CLOSE has run.
C36_OutboundTotal ==
    \A session \in DOMAIN sessions :
        LET state == sessions[session]
        IN  /\ SentBytes(session) <= Len(state.data)
            /\ ~state.should_close => SentBytes(session) = C36_PastLastNL(state.data)
            /\ state.should_close => SentBytes(session) = Len(state.data)

\* a CLOSE has just flushed the unfinished line of a stream that holds a
\* whole line and one more byte
C36_Witness ==
    /\ last = [kind |-> "close", session |-> 1]
    /\ handed = <<(<<>>)>>
    /\ sessions[1].should_close
    /\ sessions[1].data = <<NL, 120>>
    /\ SentBytes(1) = 2

\* C37: every datagram sent for a session that is in the registry (ACK,
\* CLOSE, DATA sent first or again) goes to the peer address recorded for
\* that session, whatever address the frame that caused it came from.
C37_PeerAddress ==
    \A i \in 1..Len(out) :
        out[i].msg.session \in DOMAIN sessions
            => out[i].to = sessions[out[i].msg.session].addr

\* C38: JobServer::get(queues, wait) for client c. When some ready job has
\* its queue in queues, one of highest priority among them leaves ready, is
\* appended to running and is returned to c, and no waiter is registered;
\* when none has, ready and running stay as they are, and the call either
\* returns no job (wait false) or registers the one waiter (queues, c).
C38_GetPriority ==
    [][\A c \in {x \in Clients : clients'[x] # clients[x] /\ NEXT_ID' = NEXT_ID},
          queues \in QueueSets, wait \in BOOLEAN :
          (\E ok \in BOOLEAN : ClientGet(c, queues, wait, ok)) =>
             LET ready == server.ready
                 cand == {i \in 1..Len(ready) : ready[i].queue \in queues}
             IN  IF cand # {}
                 THEN \E i \in cand :
                         /\ \A j \in cand : ready[j].pri <= ready[i].pri
                         /\ server'.ready = Remove(ready, i)
                         /\ server'.running = Append(server.running, ready[i])
                         /\ server'.waiters = server.waiters
                         /\ ready[i].id \in DOMAIN holder'
                         /\ holder'[ready[i].id] = c
                 ELSE /\ server'.ready = ready
                      /\ server'.running = server.running
                      /\ holder' = holder
                      /\ IF wait
                         THEN /\ server'.waiters =
                                    Append(server.waiters, [queues |-> queues, client |-> c])
                              /\ clients'[c].pc = "wait"
                         ELSE /\ server'.waiters = server.waiters
                              /\ clients'[c].pc # "wait"]_vars

\* of two ready jobs of queue q1 the later one, of higher priority, was
\* taken by a get and is in progress at the client it went to
C38_Witness ==
    /\ server.ready = <<Job(0, "q1", 1)>>
    /\ server.running = <<Job(1, "q1", 2)>>
    /\ 1 \in DOMAIN holder
    /\ 1 \in clients[holder[1]].in_progress

\* C39: once the handler of a client has ended (end of input, a failed
\* write, also the write that follows a waiting get), no job in running is
\* still handed to that client.
C39_DisconnectRecovery ==
    \A c \in Clients :
        clients[c].pc = "ended" =>
            \A i \in 1..Len(server.running) :
                ~(/\ server.running[i].id \in DOMAIN holder
                  /\ holder[server.running[i].id] = c)

\* what is left of C39 on the path the code provides for: after the end of
\* input, none of the jobs in_progress at the client is handed to it any more
C39_AfterEof ==
    [][\A c \in Clients :
          ClientEof(c) =>
             \A id \in clients[c].in_progress :
                 ~(id \in DOMAIN holder' /\ holder'[id] = c)]_vars

\* C40: no job id is twice in ready and running together; the jobs in
\* running are those handed to a client (by get or through a waiter) and
\* neither deleted nor returned to ready by abort since; no ready job has its
\* queue among the queues of a registered waiter.
C40_JobInvariant ==
    LET all == server.ready \o server.running
    IN  /\ \A i, j \in 1..Len(all) : all[i].id = all[j].id => i = j
        /\ {server.running[i].id : i \in 1..Len(server.running)} = DOMAIN holder
        /\ \A w \in 1..Len(server.waiters), i \in 1..Len(server.ready) :
              server.ready[i].queue \notin server.waiters[w].queues

\* a job is running, another one is ready, and a client waits for a queue
\* that no ready job is of
C40_Witness ==
    /\ Len(server.running) = 1
    /\ Len(server.ready) = 1
    /\ Len(server.waiters) = 1
    /\ clients[server.waiters[1].client].pc = "wait"

====
